---- MODULE Spec2Model ----
(***************************************************************************)
(* A model of bbackup's encryption engine, src/bbackup/encryption.py:      *)
(* the EncryptionManager's key loading (local files, HTTPS URLs, GitHub    *)
(* shorthands, the key cache), its file cipher (encrypt_file,              *)
(* decrypt_file), its directory codec (encrypt_directory,                  *)
(* decrypt_directory) and the facade (encrypt_backup, decrypt_backup).     *)
(*                                                                         *)
(* Strings are sequences of tokens: a token stands for a literal piece of  *)
(* text such as ".enc", "https://" or "github:", so that startswith,       *)
(* endswith, replace, split and slicing are computed on the text's pieces. *)
(* Byte strings that the code measures or slices (raw symmetric keys) are  *)
(* sequences of bytes; the outputs of the cryptography library (AES-GCM,   *)
(* RSA-OAEP, PEM parsing) are terms that record what was sealed under      *)
(* which key, so that opening succeeds exactly on an intact term under the *)
(* right key.                                                              *)
(***************************************************************************)
EXTENDS Integers, Sequences, FiniteSets, TLC

VARIABLES
    cfg,            \* self.config: the EncryptionSettings given to __init__
    ctor,           \* "new" before __init__, then "ok" or "raised"
    symmetric_key,  \* self.symmetric_key
    public_key,     \* self.public_key
    private_key,    \* self.private_key
    disk,           \* the local key files: reference string -> key data
    net,            \* what each URL answers to HEAD and GET
    cache,          \* ~/.cache/bbackup/keys: url hash -> [data, mode]
    cacheFault,     \* which step of writing the cache fails, if any
    netLog,         \* the requests issued so far, in order
    cacheReads,     \* the cache lookups made so far, in order
    fs,             \* the backup file system: path -> node
    hist,           \* the file and directory operations made so far, in order
    procs           \* processes inside _cache_key or _load_cached_key

vars == <<cfg, ctor, symmetric_key, public_key, private_key, disk, net, cache,
          cacheFault, netLog, cacheReads, fs, hist, procs>>

keyVars == <<cfg, ctor, symmetric_key, public_key, private_key, disk, net,
             cache, cacheFault, netLog, cacheReads, procs>>

\* Python's None.  Every value a slot, a parameter or a file can hold is a
\* record with a field t, so that any two of them compare.
None == [t |-> "None"]

(***************************************************************************)
(* Sequences.                                                              *)
(***************************************************************************)
Last(s) == s[Len(s)]

Front(s) == SubSeq(s, 1, Len(s) - 1)

IsPrefix(p, q) == Len(p) <= Len(q) /\ SubSeq(q, 1, Len(p)) = p

IsProperPrefix(p, q) == Len(p) < Len(q) /\ IsPrefix(p, q)

Range(s) == {s[i] : i \in DOMAIN s}

\* The permutations of a finite set, as sequences.
Perms(S) ==
    {s \in [1..Cardinality(S) -> S] : \A x \in S : \E i \in DOMAIN s : s[i] = x}

\* F applied to v: binds the result of one step of the code for the steps
\* that follow it.
With(v, F(_)) == F(v)

(***************************************************************************)
(* Text.  A name is a sequence of tokens; ".enc" is one token, and no      *)
(* other token contains a dot, so ".enc" occurs in a name only as that     *)
(* token.  A path is a sequence of names below the model's root <<>>.      *)
(***************************************************************************)
ENC == ".enc"

METADATA_NAME == <<"encryption_metadata.json">>

\* file.endswith('.enc')
EndsWithEnc(name) == Len(name) > 0 /\ Last(name) = ENC

\* f"{rel_path}.enc": the suffix lands on the last name of the path.
WithEncSuffix(rel) == Append(Front(rel), Append(Last(rel), ENC))

\* str(rel_path)[:-4] for a path whose last name ends with ".enc": the four
\* characters dropped are that token.
DropLast4(rel) == Append(Front(rel), Front(Last(rel)))

\* name.replace('.enc', ''): every occurrence goes, wherever it stands.
ReplaceEnc(name) == SelectSeq(name, LAMBDA t : t # ENC)

\* base / rel, as pathlib joins: an empty name adds no component.
Join(base, rel) == base \o SelectSeq(rel, LAMBDA n : n # <<>>)

Parent(p) == Front(p)

Name(p) == Last(p)

(***************************************************************************)
(* The file system.  f maps each existing path to a node; the root <<>>    *)
(* always exists.  A step of the code either raises (ok = FALSE) or        *)
(* returns the new file system; wr lists what was created or written.      *)
(***************************************************************************)
DirNode == [kind |-> "dir"]

FileNode(d) == [kind |-> "file", data |-> d]

Exists(f, p) == p \in DOMAIN f

IsDir(f, p) == p \in DOMAIN f /\ f[p].kind = "dir"

IsFile(f, p) == p \in DOMAIN f /\ f[p].kind = "file"

Prefixes(p) == {SubSeq(p, 1, i) : i \in 0..Len(p)}

PrefixSeq(p) == [i \in 1..Len(p) |-> SubSeq(p, 1, i)]

St(f, w) == [fs |-> f, wr |-> w]

Res(ok, st) == [ok |-> ok, st |-> st]

\* Path.mkdir(parents=True, exist_ok=True): raises when the path or one of
\* its ancestors is a file, and then creates nothing; otherwise creates the
\* missing directories, outermost first.
Mkdir(st, p) ==
    IF \E q \in Prefixes(p) : IsFile(st.fs, q)
    THEN Res(FALSE, st)
    ELSE LET new == SelectSeq(PrefixSeq(p), LAMBDA q : ~Exists(st.fs, q))
         IN  Res(TRUE,
                 St([q \in DOMAIN st.fs \union Prefixes(p) |->
                        IF q \in DOMAIN st.fs THEN st.fs[q] ELSE DirNode],
                    st.wr \o [i \in 1..Len(new) |->
                                 [op |-> "mkdir", path |-> new[i]]]))

\* open(p, 'wb') / Path.write_bytes: raises when p is a directory or its
\* parent is not one; otherwise creates or replaces the file.
WriteFile(st, p, d) ==
    IF IsDir(st.fs, p) \/ ~IsDir(st.fs, Parent(p))
    THEN Res(FALSE, st)
    ELSE Res(TRUE,
             St([q \in DOMAIN st.fs \union {p} |->
                    IF q = p THEN FileNode(d) ELSE st.fs[q]],
                Append(st.wr, [op |-> "write", path |-> p])))

\* The files os.walk(source) yields, as paths relative to source.
FilesUnder(f, source) ==
    {SubSeq(p, Len(source) + 1, Len(p)) :
        p \in {q \in DOMAIN f : IsProperPrefix(source, q) /\ f[q].kind = "file"}}

\* os.walk is top-down: a directory's files come together, before the files
\* of the directories below it, and a subtree is finished before its sibling
\* starts.  The order inside one directory is the file system's.
WalkOrders(f, source) ==
    {o \in Perms(FilesUnder(f, source)) :
        /\ \A i, j \in DOMAIN o :
              i < j => ~IsProperPrefix(Parent(o[j]), Parent(o[i]))
        /\ \A i, j, k \in DOMAIN o :
              (i < k /\ k < j /\ Parent(o[i]) # <<>>
                  /\ IsPrefix(SubSeq(o[i], 1, 1), o[j]))
              => IsPrefix(SubSeq(o[i], 1, 1), o[k])
        /\ \A i, j, k \in DOMAIN o :
              (i < k /\ k < j /\ Parent(o[i]) = Parent(o[j]))
              => Parent(o[k]) = Parent(o[i])}

(***************************************************************************)
(* Bytes and the cryptography library.                                     *)
(***************************************************************************)
KEY_LEN == 32       \* secrets.token_bytes(32), the AES-256 key

IV_LEN == 12        \* secrets.token_bytes(12), the GCM nonce

TAG_LEN == 16       \* the GCM tag AESGCM.encrypt appends

LEN_HDR == 4        \* len(encrypted_key).to_bytes(4, 'big')

MAX_KEY_LENGTH == 1024   \* 0 < key_length < 1024

SHA256_LEN == 32    \* the digest of OAEP's hash and MGF1

Bytes(b) == [t |-> "bytes", b |-> b]

Garbage == [t |-> "garbage"]

\* int.from_bytes(b[:4], 'big').  Python's integers do not overflow; the
\* numbers from 2^31 on, which TLC's integers cannot hold, are all
\* read as 2^31 - 1: the code only asks whether the number is below 1024.
U32(b) ==
    IF b[1] >= 128 THEN 2147483647
    ELSE ((b[1] * 256 + b[2]) * 256 + b[3]) * 256 + b[4]

\* n.to_bytes(4, 'big')
ToBytes4(n) ==
    <<(n \div 16777216) % 256, (n \div 65536) % 256, (n \div 256) % 256, n % 256>>

\* Python's truth value of an Optional[bytes] / Optional[key object].
Truthy(x) == x # None /\ (x.t = "bytes" => Len(x.b) > 0)

\* AESGCM(key): the key must be 128, 192 or 256 bits.
AesKeyOk(key) == key.t = "bytes" /\ Len(key.b) \in {16, 24, 32}

\* AESGCM(key).encrypt(iv, plaintext, None): ciphertext and tag, a term that
\* opens only under the same key and nonce while undamaged.
AesGcmEncrypt(key, iv, pt) ==
    [t |-> "gcm", key |-> key, iv |-> iv, pt |-> pt, dmg |-> "none"]

\* A cipher without authentication: it opens whatever it is given under the
\* key, damaged or not.
AesCtrDecrypt(key, iv, body) ==
    IF body.t = "gcm" /\ body.key = key
    THEN [ok |-> TRUE, pt |-> body.pt]
    ELSE [ok |-> FALSE, pt |-> None]

\* AESGCM(key).decrypt(iv, ciphertext, None): raises InvalidTag otherwise.
AesGcmDecrypt(key, iv, body) ==
    IF /\ body.t = "gcm" /\ body.dmg = "none"
       /\ iv.t = "bytes" /\ iv.b = body.iv
       /\ body.key = key
    THEN [ok |-> TRUE, pt |-> body.pt]
    ELSE [ok |-> FALSE, pt |-> None]

\* public_key.encrypt(key, OAEP(MGF1(SHA256), SHA256)): an RSA key wraps a
\* message of at most size - 2*hLen - 2 bytes; an elliptic-curve key has no
\* encrypt method.
RsaOaepEncrypt(pub, key) ==
    IF pub.alg = "rsa" /\ Len(key.b) <= pub.size - 2 * SHA256_LEN - 2
    THEN [ok |-> TRUE,
          ct |-> [t |-> "oaep", pair |-> pub.pair, key |-> key, len |-> pub.size]]
    ELSE [ok |-> FALSE, ct |-> None]

\* private_key.decrypt(encrypted_key, OAEP(...)): succeeds on a key wrapped
\* under the matching public key, raises on anything else.
RsaOaepDecrypt(priv, ek) ==
    IF priv.alg = "rsa" /\ ek.t = "oaep" /\ ek.pair = priv.pair /\ ek.len = priv.size
    THEN [ok |-> TRUE, key |-> ek.key]
    ELSE [ok |-> FALSE, key |-> None]

(***************************************************************************)
(* File contents.  A file holds plain bytes, the metadata JSON, or the     *)
(* output of encrypt_file:                                                 *)
(*   [4-byte length][wrapped key]  (pre, wk: both or neither)              *)
(*   [12-byte nonce][ciphertext and tag]  (iv, body).                      *)
(* The operators below read such a file by byte offsets, as decrypt_file   *)
(* does.                                                                   *)
(***************************************************************************)
EncData(pre, wk, iv, body) ==
    [t |-> "enc", pre |-> pre, wk |-> wk, iv |-> iv, body |-> body]

RECURSIVE DataLen(_)
DataLen(d) ==
    CASE d.t = "bytes" -> Len(d.b)
      [] d.t = "json" -> 160
      [] d.t = "enc" -> Len(d.pre) + (IF d.wk = None THEN 0 ELSE d.wk.len)
                            + Len(d.iv) + DataLen(d.body.pt) + TAG_LEN

PrefixLen(d) ==
    IF d.t = "enc" THEN Len(d.pre) + (IF d.wk = None THEN 0 ELSE d.wk.len) ELSE 0

\* encrypted_data[:4]
First4(d) ==
    CASE d.t = "bytes" -> SubSeq(d.b, 1, LEN_HDR)
      [] d.t = "json" -> <<123, 10, 32, 32>>
      [] d.t = "enc" -> IF d.pre # <<>> THEN d.pre ELSE SubSeq(d.iv, 1, LEN_HDR)

\* encrypted_data[4:4+key_length]: the wrapped key when the slice covers
\* exactly it, other bytes otherwise.
KeySlice(d, key_length) ==
    IF d.t = "enc" /\ d.wk # None /\ Len(d.pre) = LEN_HDR /\ key_length = d.wk.len
    THEN d.wk
    ELSE Garbage

\* encrypted_data[offset:offset+12]
IvAt(d, offset) ==
    CASE d.t = "enc" /\ offset = PrefixLen(d) -> Bytes(d.iv)
      [] d.t = "bytes" /\ Len(d.b) >= offset + IV_LEN ->
            Bytes(SubSeq(d.b, offset + 1, offset + IV_LEN))
      [] OTHER -> Garbage

\* encrypted_data[offset+12:]
BodyAt(d, offset) ==
    IF d.t = "enc" /\ offset = PrefixLen(d) THEN d.body ELSE Garbage

(***************************************************************************)
(* The File Cipher.  m is the Manager: its method and three key slots.     *)
(* rnd holds what the call draws from secrets: sk, the session key, and    *)
(* iv, the nonce.                                                          *)
(***************************************************************************)
Manager(method, sk, pub, priv) ==
    [method |-> method, symmetric_key |-> sk, public_key |-> pub, private_key |-> priv]

\* The key encrypt_file uses when none is passed (lines 390-398).
EncryptionKey(m, key, rnd) ==
    IF key # None THEN key
    ELSE IF m.method \in {"symmetric", "both"} /\ Truthy(m.symmetric_key)
         THEN m.symmetric_key
    ELSE IF m.method \in {"asymmetric", "both"} /\ Truthy(m.public_key)
         THEN Bytes(rnd.sk)
    ELSE None

\* A wrap of whatever key is in use, the persistent symmetric key included.
WrapAnyKey(m, k) ==
    IF m.method \in {"asymmetric", "both"} /\ Truthy(m.public_key)
    THEN RsaOaepEncrypt(m.public_key, k)
    ELSE [ok |-> TRUE, ct |-> None]

\* Lines 416-430: the session key wrapped under the public key, when the key
\* in use is not the persistent symmetric key.
WrapSessionKey(m, k) ==
    IF /\ m.method \in {"asymmetric", "both"}
       /\ Truthy(m.public_key)
       /\ k # m.symmetric_key
    THEN RsaOaepEncrypt(m.public_key, k)
    ELSE [ok |-> TRUE, ct |-> None]

\* Lines 433-440: the layout written to dest.
EncryptedFile(encrypted_key, iv, ciphertext) ==
    IF encrypted_key # None
    THEN EncData(ToBytes4(encrypted_key.len), encrypted_key, iv, ciphertext)
    ELSE EncData(<<>>, None, iv, ciphertext)

encrypt_file(st, m, source, dest, key, rnd) ==
    With(EncryptionKey(m, key, rnd), LAMBDA k :
      IF k = None THEN Res(FALSE, st)
      ELSE IF ~IsFile(st.fs, source) THEN Res(FALSE, st)
      ELSE IF ~AesKeyOk(k) THEN Res(FALSE, st)
      ELSE
        With(WrapSessionKey(m, k), LAMBDA ek :
          IF ~ek.ok THEN Res(FALSE, st)
          ELSE
            With(Mkdir(st, Parent(dest)), LAMBDA md :
              IF ~md.ok THEN Res(FALSE, st)
              ELSE WriteFile(md.st, dest,
                             EncryptedFile(ek.ct, rnd.iv,
                                 AesGcmEncrypt(k, rnd.iv, st.fs[source].data))))))

\* An unwrap that stays behind the prefix when the private key does not
\* open it.
UnwrapOrSkip(m, d, key) ==
    IF /\ m.method \in {"asymmetric", "both"}
       /\ Truthy(m.private_key)
       /\ DataLen(d) >= LEN_HDR
       /\ 0 < U32(First4(d)) /\ U32(First4(d)) < MAX_KEY_LENGTH
       /\ DataLen(d) >= LEN_HDR + U32(First4(d)) + IV_LEN
    THEN [key |-> RsaOaepDecrypt(m.private_key, KeySlice(d, U32(First4(d)))).key,
          offset |-> LEN_HDR + U32(First4(d))]
    ELSE [key |-> key, offset |-> 0]

\* A decrypt_file that opens its destination before it authenticates.
decrypt_file_eager(st, m, source, dest, key) ==
    IF ~IsFile(st.fs, source) THEN Res(FALSE, st)
    ELSE
      With(Mkdir(st, Parent(dest)), LAMBDA md :
        IF ~md.ok THEN Res(FALSE, st)
        ELSE
          With(WriteFile(md.st, dest, Bytes(<<>>)), LAMBDA out :
            IF ~out.ok \/ DataLen(st.fs[source].data) < IV_LEN \/ key = None
            THEN Res(FALSE, out.st)
            ELSE WriteFile(out.st, dest, st.fs[source].data)))

\* Lines 469-494: the session key and the offset of the nonce, when the file
\* opens as an asymmetric one; the key passed in and offset 0 otherwise.
UnwrapSessionKey(m, d, key) ==
    IF /\ m.method \in {"asymmetric", "both"}
       /\ Truthy(m.private_key)
       /\ DataLen(d) >= LEN_HDR
    THEN
      With(U32(First4(d)), LAMBDA key_length :
        IF /\ 0 < key_length /\ key_length < MAX_KEY_LENGTH
           /\ DataLen(d) >= LEN_HDR + key_length + IV_LEN
        THEN
          With(RsaOaepDecrypt(m.private_key, KeySlice(d, key_length)), LAMBDA un :
            IF un.ok THEN [key |-> un.key, offset |-> LEN_HDR + key_length]
            ELSE [key |-> key, offset |-> 0])
        ELSE [key |-> key, offset |-> 0])
    ELSE [key |-> key, offset |-> 0]

\* Lines 496-502: the key decrypt_file opens the file with.
DecryptionKey(m, key) ==
    IF key # None THEN key
    ELSE IF m.method \in {"symmetric", "both"} /\ Truthy(m.symmetric_key)
         THEN m.symmetric_key
    ELSE None

decrypt_file(st, m, source, dest, key) ==
    IF ~IsFile(st.fs, source) THEN Res(FALSE, st)
    ELSE IF DataLen(st.fs[source].data) < IV_LEN THEN Res(FALSE, st)
    ELSE
      With(UnwrapSessionKey(m, st.fs[source].data, key), LAMBDA un :
      With(DecryptionKey(m, un.key), LAMBDA k :
        IF k = None THEN Res(FALSE, st)
        ELSE IF DataLen(st.fs[source].data) < un.offset + IV_LEN THEN Res(FALSE, st)
        ELSE IF ~AesKeyOk(k) THEN Res(FALSE, st)
        ELSE
          With(AesGcmDecrypt(k, IvAt(st.fs[source].data, un.offset),
                             BodyAt(st.fs[source].data, un.offset)), LAMBDA pt :
            IF ~pt.ok THEN Res(FALSE, st)
            ELSE
              With(Mkdir(st, Parent(dest)), LAMBDA md :
                IF ~md.ok THEN Res(FALSE, st)
                ELSE WriteFile(md.st, dest, pt.pt)))))

(***************************************************************************)
(* The Directory Codec.  order is the order in which os.walk yields the    *)
(* source's files (relative paths); rnds[i] is what encrypt_file draws for *)
(* the i-th of them.                                                       *)
(***************************************************************************)
Metadata(m) ==
    [t |-> "json", encrypted |-> TRUE, method |-> m.method,
     algorithm |-> "aes-256-gcm",
     key_id |-> IF Truthy(m.symmetric_key)
                THEN [t |-> "sha256_16", of |-> m.symmetric_key]
                ELSE None]

\* Lines 554-562, from the i-th file of the walk on.
RECURSIVE EncryptWalk(_, _, _, _, _, _, _)
EncryptWalk(st, m, source, dest, order, rnds, i) ==
    IF i > Len(order) THEN Res(TRUE, st)
    ELSE
      With(Join(dest, WithEncSuffix(order[i])), LAMBDA dest_file :
      With(Mkdir(st, Parent(dest_file)), LAMBDA md :
        IF ~md.ok THEN Res(FALSE, st)
        ELSE
          With(encrypt_file(md.st, m, source \o order[i], dest_file, None, rnds[i]),
               LAMBDA r :
            IF ~r.ok THEN Res(FALSE, r.st)
            ELSE EncryptWalk(r.st, m, source, dest, order, rnds, i + 1))))

\* An encrypt_directory that takes its outputs away when a file fails.
encrypt_directory_cleanup(st, m, source, dest, order, rnds) ==
    With(Mkdir(st, dest), LAMBDA md :
      IF ~md.ok THEN Res(FALSE, st)
      ELSE
        With(EncryptWalk(md.st, m, source, dest, order, rnds, 1), LAMBDA walk :
          IF ~walk.ok THEN Res(FALSE, St(md.st.fs, walk.st.wr))
          ELSE WriteFile(walk.st, Append(dest, METADATA_NAME), Metadata(m))))

\* An encrypt_directory that saves the metadata before it encrypts.
encrypt_directory_metadata_first(st, m, source, dest, order, rnds) ==
    With(Mkdir(st, dest), LAMBDA md :
      IF ~md.ok THEN Res(FALSE, st)
      ELSE
        With(WriteFile(md.st, Append(dest, METADATA_NAME), Metadata(m)), LAMBDA meta :
          IF ~meta.ok THEN Res(FALSE, meta.st)
          ELSE EncryptWalk(meta.st, m, source, dest, order, rnds, 1)))

encrypt_directory(st, m, source, dest, order, rnds) ==
    With(Mkdir(st, dest), LAMBDA md :
      IF ~md.ok THEN Res(FALSE, st)
      ELSE
        With(EncryptWalk(md.st, m, source, dest, order, rnds, 1), LAMBDA walk :
          IF ~walk.ok THEN Res(FALSE, walk.st)
          ELSE WriteFile(walk.st, Append(dest, METADATA_NAME), Metadata(m))))

\* Lines 597-611, from the i-th file of the walk on.
RECURSIVE DecryptWalk(_, _, _, _, _, _)
DecryptWalk(st, m, source, dest, order, i) ==
    IF i > Len(order) THEN Res(TRUE, st)
    ELSE IF Last(order[i]) = METADATA_NAME \/ ~EndsWithEnc(Last(order[i]))
    THEN DecryptWalk(st, m, source, dest, order, i + 1)
    ELSE
      With(Join(dest, DropLast4(order[i])), LAMBDA dest_file :
      With(Mkdir(st, Parent(dest_file)), LAMBDA md :
        IF ~md.ok THEN Res(FALSE, st)
        ELSE
          With(decrypt_file(md.st, m, source \o order[i], dest_file, None),
               LAMBDA r :
            IF ~r.ok THEN Res(FALSE, r.st)
            ELSE DecryptWalk(r.st, m, source, dest, order, i + 1))))

\* json.load of the metadata file, when there is one, must succeed.
MetadataLoads(f, metadata_file) ==
    Exists(f, metadata_file) =>
        IsFile(f, metadata_file) /\ f[metadata_file].data.t = "json"

decrypt_directory(st, m, source, dest, order) ==
    With(Mkdir(st, dest), LAMBDA md :
      IF ~md.ok THEN Res(FALSE, st)
      ELSE IF ~MetadataLoads(md.st.fs, Append(source, METADATA_NAME))
      THEN Res(FALSE, md.st)
      ELSE DecryptWalk(md.st, m, source, dest, order, 1))

(***************************************************************************)
(* The facade.  Both return a path.                                        *)
(***************************************************************************)
\* outcome: "ok" / "failed" as the directory operation returned True / False,
\* "skipped" when decrypt_backup found no metadata and ran nothing.
Outcome(ok) == IF ok THEN "ok" ELSE "failed"

Ret(path, outcome, st) == [path |-> path, outcome |-> outcome, st |-> st]

\* backup_dir.parent / f"{backup_dir.name}.enc"
EncryptedDir(backup_dir) == Append(Parent(backup_dir), Append(Name(backup_dir), ENC))

\* backup_dir.parent / backup_dir.name.replace('.enc', '')
DecryptedDir(backup_dir) == Join(Parent(backup_dir), <<ReplaceEnc(Name(backup_dir))>>)

\* A facade that answers with the sibling path whatever the directory
\* operation returned.
encrypt_backup_sibling(st, m, backup_dir, order, rnds) ==
    With(encrypt_directory(st, m, backup_dir, EncryptedDir(backup_dir), order, rnds),
         LAMBDA r : Ret(EncryptedDir(backup_dir), Outcome(r.ok), r.st))

\* A facade that decrypts without looking for the metadata file first.
decrypt_backup_unchecked(st, m, backup_dir, order) ==
    With(decrypt_directory(st, m, backup_dir, DecryptedDir(backup_dir), order),
         LAMBDA r :
      IF r.ok THEN Ret(DecryptedDir(backup_dir), "ok", r.st)
      ELSE Ret(backup_dir, "failed", r.st))

encrypt_backup(st, m, backup_dir, order, rnds) ==
    With(encrypt_directory(st, m, backup_dir, EncryptedDir(backup_dir), order, rnds),
         LAMBDA r :
      IF r.ok THEN Ret(EncryptedDir(backup_dir), "ok", r.st)
      ELSE Ret(backup_dir, "failed", r.st))

decrypt_backup(st, m, backup_dir, order) ==
    IF ~Exists(st.fs, Append(backup_dir, METADATA_NAME))
    THEN Ret(backup_dir, "skipped", st)
    ELSE
      With(decrypt_directory(st, m, backup_dir, DecryptedDir(backup_dir), order),
           LAMBDA r :
        IF r.ok THEN Ret(DecryptedDir(backup_dir), "ok", r.st)
        ELSE Ret(backup_dir, "failed", r.st))

(***************************************************************************)
(* Key references and URLs are strings of tokens: "https://", "http://",   *)
(* "github:", "gh:", "/gist:", "/repo:" and "~nouser" are tokens, the rest *)
(* of the text comes in pieces that contain none of them.                  *)
(***************************************************************************)
Str(s) == [t |-> "str", s |-> s]

\* Python's truth value of an Optional[str].
StrTruthy(x) == x # None /\ Len(x.s) > 0

\* source.startswith(tok)
StartsWith(s, tok) == Len(s) > 0 /\ s[1] = tok

is_url(source) == StartsWith(source, "http://") \/ StartsWith(source, "https://")

is_github_shortcut(source) == StartsWith(source, "github:") \/ StartsWith(source, "gh:")

\* The index of the first occurrence of tok in s, 0 when there is none.
IndexOf(s, tok) ==
    IF tok \in Range(s) THEN CHOOSE i \in DOMAIN s : s[i] = tok /\ \A j \in 1..(i - 1) : s[j] # tok
    ELSE 0

\* Path(p).expanduser(): "~nouser" names a user without a home directory,
\* for which pathlib raises RuntimeError.
ExpandUserRaises(s) == StartsWith(s, "~nouser")

ExpandUser(s) == IF StartsWith(s, "~") THEN <<"/home/user">> \o Tail(s) ELSE s

\* hashlib.sha256(url.encode()).hexdigest()[:16]: distinct URLs of the model
\* have distinct digests.
UrlHash(url) == [t |-> "sha256_16", of |-> url]

(***************************************************************************)
(* Key data: the bytes of a key file or of a response, with what the PEM   *)
(* reader makes of them: the BEGIN markers the text contains, the public   *)
(* or private key it parses to (None when it does not parse), and the      *)
(* passphrase the private key is encrypted under (None when it is not).    *)
(***************************************************************************)
KeyData(b, markers, pub, priv, pass) ==
    [t |-> "bytes", b |-> b, markers |-> markers, pub |-> pub, priv |-> priv,
     pass |-> pass]

validate_key_format(key_data, key_type) ==
    CASE key_type = "public" ->
            key_data.markers \cap {"PUBLIC KEY", "RSA PUBLIC KEY"} # {}
      [] key_type = "private" ->
            key_data.markers \cap
                {"PRIVATE KEY", "RSA PRIVATE KEY", "ENCRYPTED PRIVATE KEY"} # {}
      [] OTHER -> FALSE

\* serialization.load_pem_public_key
LoadPemPublicKey(key_data) ==
    IF key_data.pub # None THEN [ok |-> TRUE, key |-> key_data.pub]
    ELSE [ok |-> FALSE, key |-> None]

\* serialization.load_pem_private_key: the password must be the one the key
\* is encrypted under, and must be None for a key that is not encrypted.
LoadPemPrivateKey(key_data, password_bytes) ==
    IF key_data.priv # None /\ key_data.pass = password_bytes
    THEN [ok |-> TRUE, key |-> key_data.priv]
    ELSE [ok |-> FALSE, key |-> None]

RECURSIVE SumBytes(_)
SumBytes(b) == IF b = <<>> THEN 0 ELSE b[1] + SumBytes(Tail(b))

\* PBKDF2HMAC(SHA256, length=32, salt, 100000).derive(password): 32 bytes
\* fixed by the salt and the password.
Pbkdf2(salt, password) ==
    Bytes([i \in 1..KEY_LEN |->
              (SumBytes(salt) + 31 * Len(salt) + 7 * Len(password.s) + i) % 256])

\* key_data.ljust(32, b'\0')
Ljust(b, n) == b \o [i \in 1..(n - Len(b)) |-> 0]

(***************************************************************************)
(* The KeySource Resolver.  e is the environment of a call: e.disk the     *)
(* local key files, e.net what each URL answers, e.cacheFault the step of  *)
(* a cache write that fails.  w is what the call changes: the cache, and   *)
(* the logs of the requests and cache lookups made, each tagged with the   *)
(* key slot it was made for.                                               *)
(***************************************************************************)
World(c, nl, cr) == [cache |-> c, netLog |-> nl, cacheReads |-> cr]

Env(d, n, cf) == [disk |-> d, net |-> n, cacheFault |-> cf]

Request(slot, verb, url) == [slot |-> slot, verb |-> verb, url |-> url]

\* requests.head(url).status_code == 200; a RequestException counts as not.
HeadOk(e, url) == url \in DOMAIN e.net /\ e.net[url].head = 200

\* The conventional locations tried for github:USERNAME (lines 226-240).
AllUrls(username) ==
    << <<"https://", "gist.githubusercontent.com/">> \o username
           \o <<"/bbackup-keys", "/raw/backup_public.pem">>,
       <<"https://", "gist.githubusercontent.com/">> \o username
           \o <<"/backup-keys", "/raw/backup_public.pem">>,
       <<"https://", "raw.githubusercontent.com/">> \o username
           \o <<"/bbackup-keys", "/main", "/backup_public.pem">>,
       <<"https://", "raw.githubusercontent.com/">> \o username
           \o <<"/backup-keys", "/main", "/backup_public.pem">>,
       <<"https://", "raw.githubusercontent.com/">> \o username
           \o <<"/bbackup-keys", "/master", "/backup_public.pem">>,
       <<"https://", "raw.githubusercontent.com/">> \o username
           \o <<"/backup-keys", "/master", "/backup_public.pem">> >>

\* f"https://github.com/{username}.keys"
SshKeysUrl(username) == <<"https://", "github.com/">> \o username \o <<".keys">>

\* The index of the first candidate that answers 200, 0 when none does.
FirstHit(e, cands) ==
    IF \E i \in DOMAIN cands : HeadOk(e, cands[i])
    THEN CHOOSE i \in DOMAIN cands :
            HeadOk(e, cands[i]) /\ \A j \in 1..(i - 1) : ~HeadOk(e, cands[j])
    ELSE 0

\* A prober that asks every candidate before it answers.
ProbeEveryCandidate(w, e, slot, cands) ==
    [url |-> IF FirstHit(e, cands) = 0 THEN None ELSE Str(cands[FirstHit(e, cands)]),
     w |-> [w EXCEPT !.netLog =
               @ \o [i \in DOMAIN cands |-> Request(slot, "HEAD", cands[i])]]]

\* The probes of lines 245-267 over the candidates, in order, stopping at
\* the first that answers 200.
ProbeCandidates(w, e, slot, cands) ==
    With(FirstHit(e, cands), LAMBDA n :
      [url |-> IF n = 0 THEN None ELSE Str(cands[n]),
       w |-> [w EXCEPT !.netLog =
                 @ \o [i \in 1..(IF n = 0 THEN Len(cands) ELSE n) |->
                          Request(slot, "HEAD", cands[i])]]])

\* f"https://gist.githubusercontent.com/{username}/{gist_id}/raw/backup_public.pem"
GistUrl(username, gist_id) ==
    <<"https://", "gist.githubusercontent.com/">> \o username \o <<"/">>
        \o gist_id \o <<"/raw/backup_public.pem">>

\* f"https://raw.githubusercontent.com/{username}/{repo_name}/main/backup_public.pem"
RepoUrl(username, repo_name) ==
    <<"https://", "raw.githubusercontent.com/">> \o username \o <<"/">>
        \o repo_name \o <<"/main", "/backup_public.pem">>

\* s.split(tok, 1) for a string that contains tok.
SplitBefore(s, tok) == SubSeq(s, 1, IndexOf(s, tok) - 1)

SplitAfter(s, tok) == SubSeq(s, IndexOf(s, tok) + 1, Len(s))

resolve_github_key_url(w, e, slot, shortcut) ==
    IF ~is_github_shortcut(shortcut) THEN [url |-> None, w |-> w]
    ELSE IF "/gist:" \in Range(Tail(shortcut))
    THEN [url |-> Str(GistUrl(SplitBefore(Tail(shortcut), "/gist:"),
                              SplitAfter(Tail(shortcut), "/gist:"))),
          w |-> w]
    ELSE IF "/repo:" \in Range(Tail(shortcut))
    THEN [url |-> Str(RepoUrl(SplitBefore(Tail(shortcut), "/repo:"),
                              SplitAfter(Tail(shortcut), "/repo:"))),
          w |-> w]
    ELSE ProbeCandidates(w, e, slot,
                         Append(AllUrls(Tail(shortcut)), SshKeysUrl(Tail(shortcut))))

\* The file mode a new file gets from open(): 0666 under the umask 022.
DefaultMode == "0644"

\* The cache with the entry of hash h set.
CachePut(c, h, entry) ==
    [k \in DOMAIN c \union {h} |-> IF k = h THEN entry ELSE c[k]]

\* The mode of the cache file of hash h before chmod: its own when it
\* exists, the default of a new file otherwise.
ModeBefore(c, h) == IF h \in DOMAIN c THEN c[h].mode ELSE DefaultMode

\* _cache_key: mkdir is outside the try and so raises; a failure to open, to
\* write or to chmod is caught.  A write that fails leaves the file
\* truncated.
cache_key(w, e, url, key_data) ==
    CASE e.cacheFault = "mkdir" -> [ok |-> FALSE, w |-> w]
      [] e.cacheFault = "open" -> [ok |-> TRUE, w |-> w]
      [] e.cacheFault = "write" ->
            [ok |-> TRUE,
             w |-> [w EXCEPT !.cache =
                       CachePut(@, UrlHash(url),
                                [data |-> Bytes(<<>>),
                                 mode |-> ModeBefore(w.cache, UrlHash(url))])]]
      [] e.cacheFault = "chmod" ->
            [ok |-> TRUE,
             w |-> [w EXCEPT !.cache =
                       CachePut(@, UrlHash(url),
                                [data |-> key_data,
                                 mode |-> ModeBefore(w.cache, UrlHash(url))])]]
      [] OTHER ->
            [ok |-> TRUE,
             w |-> [w EXCEPT !.cache =
                       CachePut(@, UrlHash(url),
                                [data |-> key_data, mode |-> "0600"])]]

load_cached_key(w, url) ==
    IF UrlHash(url) \in DOMAIN w.cache THEN w.cache[UrlHash(url)].data ELSE None

\* The outcome of a fetch or of reading a key source: res is "ok" with the
\* key data, "none" (the loader returns None) or "raise".
Fetched(res, data, w) == [res |-> res, data |-> data, w |-> w]

\* requests.get(url) followed by raise_for_status(): the content, or None
\* when either raises a RequestException.
Get(e, url) == IF url \in DOMAIN e.net THEN e.net[url].get ELSE None

\* Lines 309-316: the fallback to the cache after a RequestException.
\* A fetch that gives up without looking into the cache.
FetchNoFallback(w, slot, url) == Fetched("raise", None, w)

FetchFallback(w, slot, url) ==
    With([w EXCEPT !.cacheReads = Append(@, Request(slot, "READ", url))], LAMBDA w2 :
      IF Truthy(load_cached_key(w, url))
      THEN Fetched("ok", load_cached_key(w, url), w2)
      ELSE Fetched("raise", None, w2))

\* A fetch that asks for any URL it is given.
fetch_key_from_any_url(w, e, slot, url, verify_https) ==
    With([w EXCEPT !.netLog = Append(@, Request(slot, "GET", url))], LAMBDA w1 :
      IF Get(e, url) = None THEN FetchFallback(w1, slot, url)
      ELSE IF Len(Get(e, url).b) = 0 THEN Fetched("raise", None, w1)
      ELSE
        With(cache_key(w1, e, url, Get(e, url)), LAMBDA ck :
          IF ~ck.ok THEN Fetched("raise", None, ck.w)
          ELSE Fetched("ok", Get(e, url), ck.w)))

fetch_key_from_url(w, e, slot, url, verify_https) ==
    IF verify_https /\ ~StartsWith(url, "https://")
    THEN Fetched("raise", None, w)
    ELSE
      With([w EXCEPT !.netLog = Append(@, Request(slot, "GET", url))], LAMBDA w1 :
        IF Get(e, url) = None THEN FetchFallback(w1, slot, url)
        ELSE IF Len(Get(e, url).b) = 0 THEN Fetched("raise", None, w1)
        ELSE
          With(cache_key(w1, e, url, Get(e, url)), LAMBDA ck :
            IF ~ck.ok THEN Fetched("raise", None, ck.w)
            ELSE Fetched("ok", Get(e, url), ck.w)))

(***************************************************************************)
(* The Key Loader.  A loader returns the slot's value (None on failure),   *)
(* whether it raised, and the world it leaves.                             *)
(***************************************************************************)
Loaded(val, w) == [val |-> val, raised |-> FALSE, w |-> w]

Raised(w) == [val |-> None, raised |-> TRUE, w |-> w]

\* Lines 59-74 and 107-122: the bytes of a key source, from a shortcut, a
\* URL or a local file.
ReadKeySource(w, e, slot, s) ==
    IF is_github_shortcut(s)
    THEN With(resolve_github_key_url(w, e, slot, s), LAMBDA rs :
           IF ~StrTruthy(rs.url) THEN Fetched("none", None, rs.w)
           ELSE fetch_key_from_url(rs.w, e, slot, rs.url.s, TRUE))
    ELSE IF is_url(s) THEN fetch_key_from_url(w, e, slot, s, TRUE)
    ELSE IF ExpandUserRaises(s) THEN Fetched("raise", None, w)
    ELSE IF ExpandUser(s) \notin DOMAIN e.disk THEN Fetched("none", None, w)
    ELSE Fetched("ok", e.disk[ExpandUser(s)], w)

\* key_data[:16]
Salt(b) == SubSeq(b, 1, IF Len(b) < 16 THEN Len(b) ELSE 16)

\* The key bytes taken as they are.
SymmetricKeyRaw(key_data, password) == Bytes(key_data.b)

\* Lines 76-95: the AES key made of the key bytes.
SymmetricKeyFrom(key_data, password) ==
    IF StrTruthy(password) THEN Pbkdf2(Salt(key_data.b), password)
    ELSE IF Len(key_data.b) < KEY_LEN THEN Bytes(Ljust(key_data.b, KEY_LEN))
    ELSE IF Len(key_data.b) > KEY_LEN THEN Bytes(SubSeq(key_data.b, 1, KEY_LEN))
    ELSE Bytes(key_data.b)

\* config.symmetric.get('key_file') or config.symmetric.get('key_url')
SymmetricKeySource(c) ==
    IF StrTruthy(c.symmetric.key_file) THEN c.symmetric.key_file
    ELSE c.symmetric.key_url

load_symmetric_key(w, e, c) ==
    IF ~StrTruthy(SymmetricKeySource(c)) THEN Loaded(None, w)
    ELSE
      With(ReadKeySource(w, e, "symmetric", SymmetricKeySource(c).s), LAMBDA rd :
        IF rd.res # "ok" THEN Loaded(None, rd.w)
        ELSE Loaded(SymmetricKeyFrom(rd.data, c.symmetric.key_password), rd.w))

load_public_key(w, e, c) ==
    IF ~StrTruthy(c.asymmetric.public_key) THEN Loaded(None, w)
    ELSE
      With(ReadKeySource(w, e, "public", c.asymmetric.public_key.s), LAMBDA rd :
        IF rd.res # "ok" THEN Loaded(None, rd.w)
        ELSE IF ~validate_key_format(rd.data, "public") THEN Loaded(None, rd.w)
        ELSE IF ~LoadPemPublicKey(rd.data).ok THEN Loaded(None, rd.w)
        ELSE Loaded(LoadPemPublicKey(rd.data).key, rd.w))

\* password.encode() if password else None
PasswordBytes(password) == IF StrTruthy(password) THEN password ELSE None

\* Lines 157-175: the private key parsed from the local file's bytes.
PrivateKeyFrom(key_data, password) ==
    IF ~validate_key_format(key_data, "private") THEN None
    ELSE IF ~LoadPemPrivateKey(key_data, PasswordBytes(password)).ok THEN None
    ELSE LoadPemPrivateKey(key_data, PasswordBytes(password)).key

\* expanduser (line 144) stands outside the try of line 157 and so raises
\* out of the loader; the key is read from the local path only.
load_private_key(w, e, c) ==
    IF ~StrTruthy(c.asymmetric.private_key) THEN Loaded(None, w)
    ELSE IF ExpandUserRaises(c.asymmetric.private_key.s) THEN Raised(w)
    ELSE IF ExpandUser(c.asymmetric.private_key.s) \notin DOMAIN e.disk
    THEN Loaded(None, w)
    ELSE IF is_url(c.asymmetric.private_key.s) THEN Loaded(None, w)
    ELSE Loaded(PrivateKeyFrom(e.disk[ExpandUser(c.asymmetric.private_key.s)],
                               c.asymmetric.private_key_password), w)

\* The slots in order: symmetric, public, private.
Slots(s, p, q) ==
    [symmetric_key |-> s.val, public_key |-> p.val, private_key |-> q.val,
     raised |-> q.raised, w |-> q.w]

\* EncryptionManager.__init__: the slots, whether the constructor raised,
\* and the world after it.
ManagerInit(w, e, c) ==
    With(IF c.method \in {"symmetric", "both"}
         THEN load_symmetric_key(w, e, c) ELSE Loaded(None, w), LAMBDA s :
    With(IF c.method \in {"asymmetric", "both"}
         THEN load_public_key(s.w, e, c) ELSE Loaded(None, s.w), LAMBDA p :
    With(IF c.method \in {"asymmetric", "both"}
         THEN load_private_key(p.w, e, c) ELSE Loaded(None, p.w), LAMBDA q :
      Slots(s, p, q))))

(***************************************************************************)
(* The inputs of the model.                                                *)
(***************************************************************************)
RSA4096_BYTES == 512    \* the modulus of generate_keypair's rsa-4096, in bytes

PubKey(pair, alg, size) == [t |-> "pub", pair |-> pair, alg |-> alg, size |-> size]

PrivKey(pair, alg, size) == [t |-> "priv", pair |-> pair, alg |-> alg, size |-> size]

RawKey(n, v) == KeyData([i \in 1..n |-> v], {}, None, None, None)

PemText == [i \in 1..40 |-> 45]

PublicPem(pair, alg, size) ==
    KeyData(PemText, {"PUBLIC KEY"}, PubKey(pair, alg, size), None, None)

PrivatePem(pair, alg, size) ==
    KeyData(PemText, {"PRIVATE KEY"}, None, PrivKey(pair, alg, size), None)

P384_BYTES == 48        \* the field of generate_keypair's SECP384R1, in bytes

Algorithms == {"rsa-4096", "ecdsa-p384"}

\* generate_keypair(algorithm): the public and the private PEM of a new
\* pair, SubjectPublicKeyInfo and unencrypted PKCS8; None stands for the
\* ValueError of an unsupported algorithm.
generate_keypair(algorithm, pair) ==
    IF algorithm = "rsa-4096"
    THEN <<PublicPem(pair, "rsa", RSA4096_BYTES), PrivatePem(pair, "rsa", RSA4096_BYTES)>>
    ELSE IF algorithm = "ecdsa-p384"
    THEN <<PublicPem(pair, "ec", P384_BYTES), PrivatePem(pair, "ec", P384_BYTES)>>
    ELSE None

\* The files a generated pair was saved to.
GenPubKeyFile(algorithm) == Str(<<"/keys/", algorithm, ".pub.pem">>)

GenPrivKeyFile(algorithm) == Str(<<"/keys/", algorithm, ".priv.pem">>)

SymKeyFile == Str(<<"/keys/sym.key">>)

PubKeyFile == Str(<<"/keys/pub.pem">>)

PrivKeyFile == Str(<<"/keys/priv.pem">>)

\* RSA key pairs that were not made by generate_keypair: of 2048 and of 8192
\* bits.
RsaSizes == {RSA4096_BYTES \div 2, RSA4096_BYTES * 2}

Bits(size) == IF size < RSA4096_BYTES THEN "2048" ELSE "8192"

SizedPubKeyFile(size) == Str(<<"/keys/pub", Bits(size), ".pem">>)

SizedPrivKeyFile(size) == Str(<<"/keys/priv", Bits(size), ".pem">>)

\* The key files of a host whose keys are all in place.
LocalDisk ==
    (<<"/keys/sym.key">> :> RawKey(KEY_LEN, 1))
    @@ (<<"/keys/pub.pem">> :> PublicPem("kp1", "rsa", RSA4096_BYTES))
    @@ (<<"/keys/priv.pem">> :> PrivatePem("kp1", "rsa", RSA4096_BYTES))
    @@ [p \in {SizedPubKeyFile(n).s : n \in RsaSizes} |->
            PublicPem("kp", "rsa", CHOOSE n \in RsaSizes : SizedPubKeyFile(n).s = p)]
    @@ [p \in {SizedPrivKeyFile(n).s : n \in RsaSizes} |->
            PrivatePem("kp", "rsa", CHOOSE n \in RsaSizes : SizedPrivKeyFile(n).s = p)]
    @@ [p \in {GenPubKeyFile(a).s : a \in Algorithms} |->
            generate_keypair(CHOOSE a \in Algorithms : GenPubKeyFile(a).s = p, "gen")[1]]
    @@ [p \in {GenPrivKeyFile(a).s : a \in Algorithms} |->
            generate_keypair(CHOOSE a \in Algorithms : GenPrivKeyFile(a).s = p, "gen")[2]]

Config(method, key_file, key_url, key_password, public, private, private_password) ==
    [method |-> method,
     symmetric |-> [key_file |-> key_file, key_url |-> key_url,
                    key_password |-> key_password],
     asymmetric |-> [public_key |-> public, private_key |-> private,
                     private_key_password |-> private_password]]

\* Configurations whose key references are local files or unset.
LocalConfigs ==
    {Config(method, kf, None, None, pub, priv, None) :
        method \in {"symmetric", "asymmetric", "both"},
        kf \in {None, SymKeyFile},
        pub \in {None, PubKeyFile},
        priv \in {None, PrivKeyFile}}

\* What encrypt_file may draw: a session key and a nonce.  The nonces differ
\* in the number their first four bytes spell: 0, 1, 100 and 2^24.
Nonce(b1, b4) == <<b1, 0, 0, b4>> \o [i \in 1..(IV_LEN - LEN_HDR) |-> 0]

IVs == {Nonce(0, 0), Nonce(0, 1), Nonce(0, 100), Nonce(1, 0)}

SessionKeys == {[i \in 1..KEY_LEN |-> 200], [i \in 1..KEY_LEN |-> 201]}

Rnds == [sk : SessionKeys, iv : IVs]

NoFiles == (<<>> :> DirNode)

EmptyWorld == World(<<>>, <<>>, <<>>)

Op(op, src, dst, outcome, ret, wr, pre) ==
    [op |-> op, src |-> src, dst |-> dst, outcome |-> outcome, ret |-> ret,
     wr |-> wr, pre |-> pre]

TheManager == Manager(cfg.method, symmetric_key, public_key, private_key)

\* The state in which EncryptionManager(c) has returned the slots mi on a
\* host with the key files of LocalDisk, no network and an empty cache.
ConstructedWith(c, mi) ==
    /\ cfg = c
    /\ ctor = "ok"
    /\ symmetric_key = mi.symmetric_key
    /\ public_key = mi.public_key
    /\ private_key = mi.private_key
    /\ disk = LocalDisk
    /\ net = <<>>
    /\ cache = <<>>
    /\ cacheFault = "none"
    /\ netLog = <<>>
    /\ cacheReads = <<>>
    /\ procs = <<>>

Constructed(c) ==
    ConstructedWith(c, ManagerInit(EmptyWorld, Env(LocalDisk, <<>>, "none"), c))

(***************************************************************************)
(* Spec: the Directory Codec and the facade at work on a backup tree.      *)
(* Init is the state after the Manager's construction, with the backup     *)
(* directory "b" holding up to MaxFiles files.                             *)
(***************************************************************************)
MaxFiles == 2       \* files and empty directories in the initial backup directory

MaxOps == 2         \* directory operations in one behaviour

BackupDir == << <<"b">> >>

\* The names a backup directory may have: b, and b.enc, a name that holds
\* the suffix already.
BackupDirs == {BackupDir, << <<"b", ENC>> >>}

OtherDir == << <<"c">> >>

OutDir == << <<"o">> >>

\* The relative paths a backup's files may have: a, a.enc/b, s/b.
RelFiles == { << <<"a">> >>, << <<"a", ENC>>, <<"b">> >>, << <<"s">>, <<"b">> >> }

Plains == {Bytes(<<>>), Bytes([i \in 1..KEY_LEN |-> 65])}

Trees ==
    UNION {[T -> Plains] : T \in {U \in SUBSET RelFiles : Cardinality(U) <= MaxFiles}}

\* The file system that holds the tree at dir and nothing else.
TreeAt(dir, tree) ==
    [p \in {dir \o rel : rel \in DOMAIN tree}
           \union UNION {Prefixes(dir \o Parent(rel)) : rel \in DOMAIN tree}
           \union Prefixes(dir) |->
        IF \E rel \in DOMAIN tree : p = dir \o rel
        THEN FileNode(tree[SubSeq(p, Len(dir) + 1, Len(p))])
        ELSE DirNode]

\* The relative paths of the directories a backup may hold without a file
\* in them.
EmptyDirs == { << <<"e">> >> }

\* The file system f with the directories dirs added below dir.
WithDirs(f, dir, dirs) ==
    [p \in DOMAIN f \union {dir \o d : d \in dirs} |->
        IF p \in DOMAIN f THEN f[p] ELSE DirNode]

FilesIn(f) == {p \in DOMAIN f : f[p].kind = "file"}

OutFile == OutDir \o << <<"f">> >>

TopDirs(f) == {p \in DOMAIN f : Len(p) = 1 /\ f[p].kind = "dir"}

\* Successive draws from secrets for the files of one walk.
DrawList ==
    << [sk |-> [i \in 1..KEY_LEN |-> 200], iv |-> Nonce(0, 1)],
       [sk |-> [i \in 1..KEY_LEN |-> 201], iv |-> Nonce(1, 0)],
       [sk |-> [i \in 1..KEY_LEN |-> 200], iv |-> Nonce(0, 0)] >>

DrawSeqs(n) ==
    {[i \in 1..n |-> DrawList[((k + i) % Len(DrawList)) + 1]] : k \in 1..Len(DrawList)}

\* The operations of the Manager the history holds; a change made to a file
\* from outside is recorded but is not one of them.
OpsRun ==
    Cardinality({i \in DOMAIN hist : hist[i].op \notin {"tamper", "network_down"}})

\* An operation's effect on the state: the file system it leaves and its
\* record in the history.
Commit(op, src, dst, outcome, ret, st) ==
    /\ fs' = st.fs
    /\ hist' = Append(hist, Op(op, src, dst, outcome, ret, st.wr, fs))
    /\ UNCHANGED keyVars

Returned(op, src, r) == Commit(op, src, <<>>, r.outcome, r.path, r.st)

Finished(op, src, dst, r) == Commit(op, src, dst, Outcome(r.ok), dst, r.st)

EncryptBackup(backup_dir) ==
    /\ OpsRun < MaxOps
    /\ \E order \in WalkOrders(fs, backup_dir) :
       \E rnds \in DrawSeqs(Len(order)) :
          Returned("encrypt_backup", backup_dir,
                   encrypt_backup(St(fs, <<>>), TheManager, backup_dir, order, rnds))

DecryptBackup(backup_dir) ==
    /\ OpsRun < MaxOps
    /\ \E order \in WalkOrders(fs, backup_dir) :
          Returned("decrypt_backup", backup_dir,
                   decrypt_backup(St(fs, <<>>), TheManager, backup_dir, order))

EncryptDirectory(source, dest) ==
    /\ OpsRun < MaxOps
    /\ \E order \in WalkOrders(fs, source) :
       \E rnds \in DrawSeqs(Len(order)) :
          Finished("encrypt_directory", source, dest,
                   encrypt_directory(St(fs, <<>>), TheManager, source, dest,
                                     order, rnds))

DecryptDirectory(source, dest) ==
    /\ OpsRun < MaxOps
    /\ \E order \in WalkOrders(fs, source) :
          Finished("decrypt_directory", source, dest,
                   decrypt_directory(St(fs, <<>>), TheManager, source, dest, order))

\* decrypt_file called on one file of the tree, with no key passed.
DecryptFile(source, dest) ==
    /\ OpsRun < MaxOps
    /\ Finished("decrypt_file", source, dest,
                decrypt_file(St(fs, <<>>), TheManager, source, dest, None))

Init ==
    /\ \E c \in LocalConfigs : Constructed(c)
    /\ \E tree \in Trees, dirs \in SUBSET EmptyDirs :
          /\ Cardinality(DOMAIN tree) + Cardinality(dirs) <= MaxFiles
          /\ \E dir \in BackupDirs : fs = WithDirs(TreeAt(dir, tree), dir, dirs)
    /\ hist = <<>>

Next ==
    \/ \E d \in TopDirs(fs) : EncryptBackup(d)
    \/ \E d \in TopDirs(fs) : DecryptBackup(d)
    \/ \E d \in TopDirs(fs) : EncryptDirectory(d, OtherDir)
    \/ \E d \in TopDirs(fs) : DecryptDirectory(d, OutDir)
    \/ \E p \in FilesIn(fs) : DecryptFile(p, OutFile)

Spec == Init /\ [][Next]_vars

(***************************************************************************)
(* SpecFile: the File Cipher at work on one file.  "p" is encrypted to     *)
(* "e", one bit of "e" may be changed from outside, and files are          *)
(* decrypted to "o/f".                                                     *)
(***************************************************************************)
PlainFile == << <<"p">> >>

EncFile == << <<"e">> >>

\* The byte b with bit k inverted.
FlipBit(b, k) == IF (b \div (2 ^ k)) % 2 = 1 THEN b - 2 ^ k ELSE b + 2 ^ k

\* The bits of the nonce the model inverts: the lowest and the highest of
\* its first, fourth and last byte.
TamperBytes == {1, LEN_HDR, IV_LEN}

TamperBits == {0, 7}

\* encrypt_file(source, dest) with no key passed.
EncryptFile(source, dest) ==
    /\ OpsRun < MaxOps
    /\ \E rnd \in Rnds :
          Finished("encrypt_file", source, dest,
                   encrypt_file(St(fs, <<>>), TheManager, source, dest, None, rnd))

\* The file contents that differ from d in one bit: of the nonce, of the
\* tag, or of the ciphertext when there is any.
TamperedCopies(d) ==
    {[d EXCEPT !.iv = [@ EXCEPT ![i] = FlipBit(@, k)]] :
        i \in TamperBytes, k \in TamperBits}
    \union {[d EXCEPT !.body.dmg = "tag"]}
    \union (IF DataLen(d.body.pt) > 0 THEN {[d EXCEPT !.body.dmg = "ct"]} ELSE {})

\* One bit of an encrypted file changes, once.
Tamper(file) ==
    /\ IsFile(fs, file) /\ fs[file].data.t = "enc"
    /\ \A i \in DOMAIN hist : hist[i].op # "tamper"
    /\ \E d \in TamperedCopies(fs[file].data) :
          Commit("tamper", file, <<>>,
                 IF d.iv # fs[file].data.iv THEN "iv" ELSE d.body.dmg, file,
                 St([fs EXCEPT ![file] = FileNode(d)], <<>>))

\* Configurations with a key pair of another size in both asymmetric slots.
SizedPairConfigs ==
    {Config(method, kf, None, None, SizedPubKeyFile(n), SizedPrivKeyFile(n), None) :
        method \in {"asymmetric", "both"}, kf \in {None, SymKeyFile},
        n \in RsaSizes}

\* What an earlier run left at the place of the output.
OldOutput == Bytes([i \in 1..KEY_LEN |-> 66])

\* Asymmetric configurations with a pair made by generate_keypair.
GeneratedPairConfigs ==
    {Config("asymmetric", None, None, None, GenPubKeyFile(a), GenPrivKeyFile(a), None) :
        a \in Algorithms}

InitFile ==
    /\ \E c \in LocalConfigs \union SizedPairConfigs \union GeneratedPairConfigs :
          Constructed(c)
    /\ \E d \in Plains :
          \/ fs = NoFiles @@ (PlainFile :> FileNode(d))
          \/ fs = TreeAt(OutFile, <<>> :> OldOutput) @@ (PlainFile :> FileNode(d))
    /\ hist = <<>>

NextFile ==
    \/ EncryptFile(PlainFile, EncFile)
    \/ Tamper(EncFile)
    \/ \E p \in FilesIn(fs) : DecryptFile(p, OutFile)

SpecFile == InitFile /\ [][NextFile]_vars

\* The file differs in one bit of its nonce, ciphertext or tag from what
\* encrypt_file wrote.
IsTampered(d) == d.t = "enc" /\ (d.body.dmg # "none" \/ d.iv # d.body.iv)

\* encrypt_file wrote a file, one bit of it changed, decrypt_file read it.
TamperedRun(i) ==
    /\ i >= 3
    /\ hist[i - 2].op = "encrypt_file" /\ hist[i - 2].outcome = "ok"
    /\ hist[i - 1].op = "tamper" /\ hist[i - 1].src = hist[i - 2].dst
    /\ hist[i].op = "decrypt_file" /\ hist[i].src = hist[i - 2].dst

\* C2: in every method, decrypt_file returns failure for a file written by
\* encrypt_file of which one bit of the nonce, the ciphertext or the tag has
\* changed, and writes nothing; it never returns success for such a file.
C2_TamperDetected ==
    \A i \in DOMAIN hist :
        /\ TamperedRun(i) => hist[i].outcome = "failed" /\ hist[i].wr = <<>>
        /\ (hist[i].op = "decrypt_file" /\ IsTampered(hist[i].pre[hist[i].src].data))
              => hist[i].outcome = "failed"

\* A file with a wrapped session key, written by a Manager that holds all
\* three keys, was refused after a bit of its nonce changed.
C2_Witness ==
    /\ Len(hist) = 3 /\ TamperedRun(3)
    /\ hist[2].outcome = "iv"
    /\ hist[3].pre[EncFile].data.wk # None
    /\ Truthy(private_key) /\ Truthy(public_key)
    /\ hist[3].outcome = "failed"

(***************************************************************************)
(* SpecKeys: the construction of the Manager on a host with key files, a   *)
(* network and a key cache, and direct calls of the URL fetch.             *)
(***************************************************************************)
HttpsSymUrl == <<"https://", "host/sym.key">>

HttpSymUrl == <<"http://", "host/sym.key">>

HttpsPubUrl == <<"https://", "host/pub.pem">>

HttpPubUrl == <<"http://", "host/pub.pem">>

HttpsPrivUrl == <<"https://", "host/priv.pem">>

HttpPrivUrl == <<"http://", "host/priv.pem">>

Alice == <<"github:", "alice">>

AliceGist == <<"gh:", "alice", "/gist:", "g1">>

EncPrivKeyFile == Str(<<"/keys/enc.pem">>)

JunkPemFile == Str(<<"/keys/junk.pem">>)

MissingFile == Str(<<"/keys/missing">>)

NoHome == Str(<<"~nouser", "/key.pem">>)

ShortKeyFile == Str(<<"/keys/short.key">>)

LongKeyFile == Str(<<"/keys/long.key">>)

EmptyKeyFile == Str(<<"/keys/empty.key">>)

SHORT_KEY_LEN == 10     \* a raw key shorter than the AES key

LONG_KEY_LEN == 64      \* a raw key longer than the AES key

\* A raw key file of n bytes: 1, 2, ..., n.
CountKey(n) == KeyData([i \in 1..n |-> i], {}, None, None, None)

\* A private key encrypted under the passphrase "pw".
EncryptedPrivatePem(pair, alg, size) ==
    KeyData(PemText, {"ENCRYPTED PRIVATE KEY"}, None, PrivKey(pair, alg, size),
            Str(<<"pw">>))

\* The host's files: the keys of LocalDisk, an encrypted private key, a file
\* with a public key's marker that does not parse, and private keys in
\* files whose relative paths read like a URL and like a shortcut.
KeyDisk ==
    LocalDisk
    @@ (EncPrivKeyFile.s :> EncryptedPrivatePem("kp1", "rsa", RSA4096_BYTES))
    @@ (JunkPemFile.s :> KeyData(PemText, {"PUBLIC KEY"}, None, None, None))
    @@ (HttpsPrivUrl :> PrivatePem("kp1", "rsa", RSA4096_BYTES))
    @@ (Alice :> PrivatePem("kp1", "rsa", RSA4096_BYTES))
    @@ (ShortKeyFile.s :> CountKey(SHORT_KEY_LEN))
    @@ (LongKeyFile.s :> CountKey(LONG_KEY_LEN))
    @@ (EmptyKeyFile.s :> CountKey(0))

Answer(head, get) == [head |-> head, get |-> get]

\* A network on which every URL of the model answers, and one on which
\* none does.
Online ==
    (HttpsSymUrl :> Answer(200, RawKey(KEY_LEN, 2)))
    @@ (HttpSymUrl :> Answer(200, RawKey(KEY_LEN, 3)))
    @@ (HttpsPubUrl :> Answer(200, PublicPem("kp1", "rsa", RSA4096_BYTES)))
    @@ (HttpPubUrl :> Answer(200, PublicPem("kp2", "rsa", RSA4096_BYTES)))
    @@ (HttpsPrivUrl :> Answer(200, PrivatePem("kp2", "rsa", RSA4096_BYTES)))
    @@ (HttpPrivUrl :> Answer(200, PrivatePem("kp2", "rsa", RSA4096_BYTES)))
    @@ (AllUrls(<<"alice">>)[3] :> Answer(200, PublicPem("kp1", "rsa", RSA4096_BYTES)))
    @@ (GistUrl(<<"alice">>, <<"g1">>)
            :> Answer(200, PublicPem("kp1", "rsa", RSA4096_BYTES)))

Offline == <<>>

AliceRepo == <<"github:", "alice", "/repo:", "r1">>

GhAlice == <<"gh:", "alice">>

\* The locations resolution may ask for the user alice.
AliceCandidates == Append(AllUrls(<<"alice">>), SshKeysUrl(<<"alice">>))

\* A network on which the candidates of indices hits answer a HEAD with 200
\* and a GET with a public key; the others answer 404 when quiet is
\* "404", and do not answer at all otherwise.
GithubNet(hits, quiet) ==
    [url \in {AliceCandidates[i] : i \in
                 IF quiet = "404" THEN DOMAIN AliceCandidates ELSE hits} |->
        IF url \in {AliceCandidates[i] : i \in hits}
        THEN Answer(200, PublicPem("kp1", "rsa", RSA4096_BYTES))
        ELSE Answer(404, None)]

GithubNets ==
    {GithubNet(hits, quiet) :
        hits \in SUBSET DOMAIN AliceCandidates, quiet \in {"404", "down"}}

\* Configurations whose public key, or symmetric key, is at a shorthand
\* reference.
GithubConfigs ==
    {Config("asymmetric", None, None, None, Str(ref), None, None) :
        ref \in {Alice, GhAlice, AliceGist, AliceRepo}}
    \union {Config("symmetric", None, Str(GhAlice), None, None, None, None)}

CacheEntry(data) == [data |-> data, mode |-> "0600"]

\* A cache that holds a key for each of the symmetric and public URLs.
WarmCache ==
    (UrlHash(HttpsSymUrl) :> CacheEntry(RawKey(KEY_LEN, 4)))
    @@ (UrlHash(HttpSymUrl) :> CacheEntry(RawKey(KEY_LEN, 5)))
    @@ (UrlHash(HttpsPubUrl) :> CacheEntry(PublicPem("kp1", "rsa", RSA4096_BYTES)))
    @@ (UrlHash(HttpPubUrl) :> CacheEntry(PublicPem("kp2", "rsa", RSA4096_BYTES)))
    @@ (UrlHash(HttpsPrivUrl) :> CacheEntry(PrivatePem("kp2", "rsa", RSA4096_BYTES)))

\* key_file and key_url of the symmetric section.
SymSources ==
    {<<None, None>>, <<SymKeyFile, None>>, <<None, Str(HttpSymUrl)>>,
     <<None, Str(HttpsSymUrl)>>, <<SymKeyFile, Str(HttpSymUrl)>>,
     <<NoHome, None>>, <<MissingFile, None>>}

PubSources ==
    {None, PubKeyFile, Str(HttpPubUrl), Str(HttpsPubUrl), Str(Alice),
     Str(AliceGist), PrivKeyFile, JunkPemFile}

\* private_key and private_key_password of the asymmetric section.
PrivSources ==
    {<<None, None>>, <<PrivKeyFile, None>>, <<PrivKeyFile, Str(<<"pw">>)>>,
     <<EncPrivKeyFile, Str(<<"pw">>)>>, <<EncPrivKeyFile, Str(<<"bad">>)>>,
     <<EncPrivKeyFile, None>>, <<Str(HttpsPrivUrl), None>>,
     <<Str(HttpPrivUrl), None>>, <<Str(Alice), None>>, <<NoHome, None>>,
     <<MissingFile, None>>, <<PubKeyFile, None>>}

\* Raw key files of several lengths, with and without key_password.
RawKeySources ==
    {<<kf, pw>> : kf \in {SymKeyFile, ShortKeyFile, LongKeyFile, EmptyKeyFile},
                  pw \in {None, Str(<<"pw">>)}}

KeyConfigs ==
    {Config(method, sym[1], sym[2], None, pub, priv[1], priv[2]) :
        method \in {"symmetric", "asymmetric", "both"},
        sym \in SymSources, pub \in PubSources, priv \in PrivSources}
    \union
    {Config(method, raw[1], None, raw[2], None, None, None) :
        method \in {"symmetric", "both"}, raw \in RawKeySources}

CacheFaults == {"none", "mkdir", "write"}

\* What EncryptionManager(cfg) leaves: the slots assigned before it
\* returned or raised, and the world after the loaders' requests.
ConstructResult(mi) ==
    /\ ctor' = IF mi.raised THEN "raised" ELSE "ok"
    /\ symmetric_key' = mi.symmetric_key
    /\ public_key' = mi.public_key
    /\ private_key' = mi.private_key
    /\ cache' = mi.w.cache
    /\ netLog' = mi.w.netLog
    /\ cacheReads' = mi.w.cacheReads
    /\ UNCHANGED <<cfg, disk, net, cacheFault, fs, hist, procs>>

Construct ==
    /\ ctor = "new"
    /\ ConstructResult(ManagerInit(World(cache, netLog, cacheReads),
                                   Env(disk, net, cacheFault), cfg))

\* What a call of _fetch_key_from_url leaves.
FetchResult(url, verify_https, r) ==
    /\ cache' = r.w.cache
    /\ netLog' = r.w.netLog
    /\ cacheReads' = r.w.cacheReads
    /\ hist' = Append(hist, Op("fetch_key_from_url", url, <<>>, r.res,
                               [verify_https |-> verify_https, data |-> r.data,
                                live |-> Get(Env(disk, net, cacheFault), url),
                                entry |-> load_cached_key(
                                              World(cache, netLog, cacheReads), url)],
                               <<>>, fs))
    /\ UNCHANGED <<cfg, ctor, symmetric_key, public_key, private_key, disk, net,
                   cacheFault, fs, procs>>

\* _fetch_key_from_url(url, verify_https) called on the constructed Manager.
FetchKeyFromUrl(url, verify_https) ==
    /\ ctor = "ok"
    /\ OpsRun < MaxOps
    /\ FetchResult(url, verify_https,
                   fetch_key_from_url(World(cache, netLog, cacheReads),
                                      Env(disk, net, cacheFault), "direct", url,
                                      verify_https))

\* The network stops answering.
NetworkDown ==
    /\ ctor = "ok"
    /\ net # Offline
    /\ net' = Offline
    /\ hist' = Append(hist, Op("network_down", <<>>, <<>>, "ok", <<>>, <<>>, fs))
    /\ UNCHANGED <<cfg, ctor, symmetric_key, public_key, private_key, disk, cache,
                   cacheFault, netLog, cacheReads, fs, procs>>

InitKeys ==
    /\ ctor = "new"
    /\ symmetric_key = None /\ public_key = None /\ private_key = None
    /\ disk = KeyDisk
    /\ \/ /\ cfg \in KeyConfigs
          /\ net \in {Online, Offline}
          /\ cache \in {<<>>, WarmCache}
          /\ cacheFault \in CacheFaults
       \/ /\ cfg \in GithubConfigs
          /\ net \in GithubNets
          /\ cache = <<>>
          /\ cacheFault = "none"
    /\ netLog = <<>> /\ cacheReads = <<>>
    /\ fs = NoFiles
    /\ hist = <<>>
    /\ procs = <<>>

NextKeys ==
    \/ Construct
    \/ \E url \in {HttpsSymUrl, HttpSymUrl}, verify_https \in BOOLEAN :
          FetchKeyFromUrl(url, verify_https)
    \/ NetworkDown

SpecKeys == InitKeys /\ [][NextKeys]_vars

\* The reference is set and begins with http://.
HttpRef(ref) == StrTruthy(ref) /\ StartsWith(ref.s, "http://")

\* Neither a request nor a cache lookup was made for the slot.
NoTraffic(slot) ==
    /\ \A i \in DOMAIN netLog : netLog[i].slot # slot
    /\ \A i \in DOMAIN cacheReads : cacheReads[i].slot # slot

\* C3: a symmetric-key or public-key reference that begins with http://
\* leaves its slot empty, with no HEAD or GET issued and no cache lookup made
\* for it, whether or not the cache holds an entry for the URL.
C3_HttpRejected ==
    ctor # "new" =>
        /\ HttpRef(SymmetricKeySource(cfg)) =>
              symmetric_key = None /\ NoTraffic("symmetric")
        /\ HttpRef(cfg.asymmetric.public_key) =>
              public_key = None /\ NoTraffic("public")

\* Both loaders ran on http:// references, on a network where the URLs
\* answer and with cache entries for them.
C3_Witness ==
    /\ ctor = "ok" /\ cfg.method = "both"
    /\ HttpRef(SymmetricKeySource(cfg)) /\ HttpRef(cfg.asymmetric.public_key)
    /\ net = Online
    /\ UrlHash(SymmetricKeySource(cfg).s) \in DOMAIN cache
    /\ UrlHash(cfg.asymmetric.public_key.s) \in DOMAIN cache
    /\ Truthy(private_key)

\* key_data right-padded with zero bytes to KEY_LEN, or cut to its first
\* KEY_LEN bytes.
PaddedOrCut(b) == [i \in 1..KEY_LEN |-> IF i <= Len(b) THEN b[i] ELSE 0]

\* The symmetric key comes from a local file and no password is set.
RawLocalKey ==
    /\ cfg.method \in {"symmetric", "both"}
    /\ StrTruthy(cfg.symmetric.key_file)
    /\ cfg.symmetric.key_file.s \in DOMAIN disk
    /\ ~StrTruthy(cfg.symmetric.key_password)

\* C11: without a password the symmetric key is the raw key bytes padded
\* with zero bytes to 32 when shorter, their first 32 bytes when longer and
\* unchanged when 32 long; a symmetric key slot that is not empty, with or
\* without password derivation, holds exactly 32 bytes.
C11_SymmetricKeyLength ==
    ctor # "new" =>
        /\ RawLocalKey =>
              symmetric_key = Bytes(PaddedOrCut(disk[cfg.symmetric.key_file.s].b))
        /\ symmetric_key # None =>
              symmetric_key.t = "bytes" /\ Len(symmetric_key.b) = KEY_LEN

\* The 64-byte key file was loaded without a password.
C11_Witness ==
    /\ ctor = "ok" /\ RawLocalKey
    /\ cfg.symmetric.key_file = LongKeyFile
    /\ symmetric_key.b[KEY_LEN] = KEY_LEN

\* The reference is a URL or a provider shortcut.
NonLocalRef(ref) ==
    StrTruthy(ref) /\ (is_url(ref.s) \/ is_github_shortcut(ref.s))

\* C4: a private-key reference that is a URL or any other non-local form
\* leaves the private-key slot empty, no HEAD or GET is issued for the
\* private key, and a private key that is loaded was read from a local file.
C4_PrivateKeyLocalOnly ==
    ctor # "new" =>
        /\ NonLocalRef(cfg.asymmetric.private_key) => private_key = None
        /\ \A i \in DOMAIN netLog : netLog[i].slot # "private"
        /\ Truthy(private_key) =>
              /\ ExpandUser(cfg.asymmetric.private_key.s) \in DOMAIN disk
              /\ private_key = disk[ExpandUser(cfg.asymmetric.private_key.s)].priv

\* C5: every HEAD and GET issued goes to a URL that begins with https://,
\* and a direct fetch of any other URL is rejected whatever its arguments.
C5_HttpsOnly ==
    /\ \A i \in DOMAIN netLog : StartsWith(netLog[i].url, "https://")
    /\ \A i \in DOMAIN hist :
          (/\ hist[i].op = "fetch_key_from_url"
           /\ ~StartsWith(hist[i].src, "https://"))
          => hist[i].outcome = "raise"

\* The slots the constructor fills for config c in the world it started in.
\* The cache only grows and the logs only lengthen, so the world before is
\* the one with the initial cache of the behaviour.
SameButSymmetric(c) ==
    [c EXCEPT !.symmetric = [key_file |-> None, key_url |-> None,
                             key_password |-> None]]

SameButPublic(c) == [c EXCEPT !.asymmetric.public_key = None]

SameButPrivate(c) ==
    [c EXCEPT !.asymmetric.private_key = None,
              !.asymmetric.private_key_password = None]

\* C9: the constructor does not raise, whichever key sources fail, and a
\* slot holds what it would hold were the other slots' sources unset.
C9_ConstructionNeverRaises ==
    ctor # "new" =>
        /\ ctor = "ok"
        /\ \A w \in {World(c, <<>>, <<>>) : c \in {<<>>, WarmCache}} :
              (ManagerInit(w, Env(disk, net, cacheFault), cfg).w.cache = cache
                  /\ hist = <<>>)
              => /\ symmetric_key =
                      ManagerInit(w, Env(disk, net, cacheFault),
                                  SameButPrivate(SameButPublic(cfg))).symmetric_key
                 /\ public_key =
                      ManagerInit(w, Env(disk, net, cacheFault),
                                  SameButPrivate(SameButSymmetric(cfg))).public_key
                 /\ private_key =
                      ManagerInit(w, Env(disk, net, cacheFault),
                                  SameButPublic(SameButSymmetric(cfg))).private_key

(***************************************************************************)
(* Properties of the Directory Codec and the facade, checked under Spec.   *)
(***************************************************************************)
\* The file system the i-th operation of the history left behind.
PostFs(i) == IF i < Len(hist) THEN hist[i + 1].pre ELSE fs

\* The files below dir, by relative path, with their contents.
TreeOf(f, dir) == [rel \in FilesUnder(f, dir) |-> f[dir \o rel].data]

WroteTo(i, p) == \E k \in DOMAIN hist[i].wr :
                    hist[i].wr[k].op = "write" /\ hist[i].wr[k].path = p

SymmetricLoaded == cfg.method = "symmetric" /\ Truthy(symmetric_key)

NoUsableKey == ~Truthy(symmetric_key) /\ ~Truthy(public_key)

\* encrypt_directory(b, c) on a fresh c, then decrypt_directory(c, o).
RoundTripRan ==
    /\ Len(hist) = 2
    /\ hist[1].op = "encrypt_directory" /\ hist[1].src = BackupDir
    /\ hist[2].op = "decrypt_directory" /\ hist[2].src = hist[1].dst

\* C1: in symmetric mode with a loaded key, encrypt_directory(src, enc)
\* followed by decrypt_directory(enc, out) both succeed and out holds exactly
\* the files of src, byte for byte, for every source tree of regular files.
C1_RoundTrip ==
    (RoundTripRan /\ SymmetricLoaded) =>
        /\ hist[1].outcome = "ok"
        /\ hist[2].outcome = "ok"
        /\ TreeOf(fs, OutDir) = TreeOf(hist[1].pre, BackupDir)

\* C6: encrypt_backup returns a path and never raises; the path is the
\* sibling <dir>.enc exactly when encrypt_directory succeeded (it ended by
\* writing the metadata file) and the input path otherwise, so the returned
\* path differs from the input if and only if encryption succeeded.
C6_EncryptBackupPath ==
    \A i \in DOMAIN hist :
        hist[i].op = "encrypt_backup" =>
            /\ hist[i].outcome \in {"ok", "failed"}
            /\ hist[i].outcome = "ok" <=>
                   WroteTo(i, Append(EncryptedDir(hist[i].src), METADATA_NAME))
            /\ hist[i].outcome = "ok" <=> hist[i].ret = EncryptedDir(hist[i].src)
            /\ hist[i].outcome = "failed" => hist[i].ret = hist[i].src
            /\ hist[i].ret # hist[i].src <=> hist[i].outcome = "ok"

\* An encrypt_backup that failed midway, then one that succeeded.
C6_Witness ==
    /\ Len(hist) = 2
    /\ hist[1].op = "encrypt_backup" /\ hist[1].outcome = "failed"
    /\ hist[1].wr # <<>>
    /\ hist[2].op = "encrypt_backup" /\ hist[2].outcome = "ok"

\* C7: decrypt_backup on a directory that holds the metadata file, whatever
\* the directory is called, returns its input path if and only if the
\* decryption failed.
C7_DecryptBackupPath ==
    \A i \in DOMAIN hist :
        (/\ hist[i].op = "decrypt_backup"
         /\ Exists(hist[i].pre, Append(hist[i].src, METADATA_NAME)))
        => (hist[i].ret = hist[i].src <=> hist[i].outcome = "failed")

\* C8: decrypt_backup on a directory with no metadata file at its root
\* returns the same path and writes no file and no directory, whatever keys
\* the Manager holds and however often it is called.
C8_NoMetadataNoWrite ==
    \A i \in DOMAIN hist :
        (/\ hist[i].op = "decrypt_backup"
         /\ ~Exists(hist[i].pre, Append(hist[i].src, METADATA_NAME)))
        => /\ hist[i].ret = hist[i].src
           /\ hist[i].wr = <<>>
           /\ PostFs(i) = hist[i].pre

\* Two calls in a row, by a Manager that holds a key, on a directory that
\* has .enc files but no metadata file.
C8_Witness ==
    /\ Len(hist) = 2
    /\ Truthy(symmetric_key)
    /\ \A i \in 1..2 :
          /\ hist[i].op = "decrypt_backup"
          /\ ~Exists(hist[i].pre, Append(hist[i].src, METADATA_NAME))
          /\ hist[i].src = BackupDir
    /\ FilesUnder(fs, BackupDir) # {}

\* C10: with the symmetric and the public key slot both empty,
\* encrypt_backup returns the input path and writes neither a .enc file nor
\* a metadata file; decrypt_file with no symmetric and no private key fails.
C10_NoKeyNoOutput ==
    \A i \in DOMAIN hist :
        /\ (hist[i].op = "encrypt_backup" /\ NoUsableKey) =>
              /\ hist[i].ret = hist[i].src
              /\ \A k \in DOMAIN hist[i].wr : hist[i].wr[k].op # "write"
        /\ (/\ hist[i].op = "decrypt_file"
            /\ ~Truthy(symmetric_key) /\ ~Truthy(private_key)) =>
              hist[i].outcome = "failed"

(***************************************************************************)
(* Properties of the File Cipher's hybrid scheme, checked under SpecFile.  *)
(***************************************************************************)
\* Asymmetric mode with a matching RSA pair whose modulus is large enough
\* for OAEP to wrap a session key.
MatchingPairLoaded ==
    /\ cfg.method = "asymmetric"
    /\ Truthy(public_key) /\ Truthy(private_key)
    /\ public_key.alg = "rsa" /\ private_key.alg = "rsa"
    /\ public_key.pair = private_key.pair /\ public_key.size = private_key.size
    /\ public_key.size >= KEY_LEN + 2 * SHA256_LEN + 2

\* encrypt_file(p, e) was followed at once by decrypt_file(e, o/f).
EncryptThenDecrypt(i) ==
    /\ i >= 2
    /\ hist[i - 1].op = "encrypt_file" /\ hist[i - 1].src = PlainFile
    /\ hist[i].op = "decrypt_file" /\ hist[i].src = hist[i - 1].dst

\* C12: in asymmetric mode with a matching RSA pair of any modulus size
\* able to wrap a 32-byte session key, encrypt_file followed by decrypt_file
\* succeeds and reproduces the plaintext byte for byte.
C12_HybridRoundTrip ==
    \A i \in DOMAIN hist :
        (EncryptThenDecrypt(i) /\ MatchingPairLoaded) =>
            /\ hist[i - 1].outcome = "ok"
            /\ hist[i].outcome = "ok"
            /\ IsFile(PostFs(i), OutFile)
            /\ PostFs(i)[OutFile].data = hist[i - 1].pre[PlainFile].data

(***************************************************************************)
(* Properties of the key cache, checked under SpecKeys.  A record of       *)
(* fetch_key_from_url in the history holds what the call met: live, the    *)
(* answer of the GET (None when the request failed), and entry, the        *)
(* content of the URL's cache file (None when there was none).             *)
(***************************************************************************)
\* The i-th operation was a fetch of an https:// URL whose request failed.
LiveFetchFailed(i) ==
    /\ hist[i].op = "fetch_key_from_url"
    /\ StartsWith(hist[i].src, "https://")
    /\ hist[i].ret.live = None

\* The fetch returned the bytes of its own URL's cache entry.
ReturnedEntry(i) ==
    hist[i].outcome = "ok" /\ hist[i].ret.data = hist[i].ret.entry

CurrentEntry(url) == load_cached_key(World(cache, netLog, cacheReads), url)

\* The fetches of the history that went to the cache: those whose request
\* was issued and failed.
FailedRequests ==
    {i \in DOMAIN hist :
        /\ hist[i].op = "fetch_key_from_url"
        /\ hist[i].ret.live = None
        /\ (hist[i].ret.verify_https => StartsWith(hist[i].src, "https://"))}

\* C14: a cache entry is written only after a successful non-empty fetch of
\* its URL and then holds exactly the fetched bytes; the cache is read only
\* after the live fetch of the same URL failed in the same call, so a fetch
\* that succeeded live returns the fresh bytes; no operation deletes or
\* empties a cache entry.
C14_CacheDiscipline ==
    /\ \A i \in DOMAIN hist :
          hist[i].op = "fetch_key_from_url" =>
              /\ (hist[i].outcome = "ok" /\ hist[i].ret.live # None) =>
                    hist[i].ret.data = hist[i].ret.live
              /\ i = Len(hist) =>
                    /\ CurrentEntry(hist[i].src) # hist[i].ret.entry =>
                          /\ Truthy(hist[i].ret.live)
                          /\ CurrentEntry(hist[i].src) = hist[i].ret.live
                    /\ Truthy(hist[i].ret.entry) => Truthy(CurrentEntry(hist[i].src))
    /\ Cardinality({k \in DOMAIN cacheReads : cacheReads[k].slot = "direct"})
           = Cardinality(FailedRequests)

\* The reference is a shorthand without an explicit gist or repo.
PlainShortcut(ref) ==
    /\ StrTruthy(ref)
    /\ is_github_shortcut(ref.s)
    /\ "/gist:" \notin Range(ref.s)
    /\ "/repo:" \notin Range(ref.s)

\* The place of a location in the order of resolution: conventional gist
\* names, repository names on main, the same on master, the key listing.
Category(url) ==
    CASE url[2] = "gist.githubusercontent.com/" -> 1
      [] url[2] = "raw.githubusercontent.com/" /\ "/main" \in Range(url) -> 2
      [] url[2] = "raw.githubusercontent.com/" /\ "/master" \in Range(url) -> 3
      [] url[2] = "github.com/" -> 4
      [] OTHER -> 0

\* The requests made for a slot, and the probes among them.
SlotLog(slot) == SelectSeq(netLog, LAMBDA r : r.slot = slot)

Probes(slot) == SelectSeq(netLog, LAMBDA r : r.slot = slot /\ r.verb = "HEAD")

Answers200(url) == url \in DOMAIN net /\ net[url].head = 200

NetworkAsBefore == \A i \in DOMAIN hist : hist[i].op # "network_down"

\* The probes of a slot came first and one at a time, over distinct
\* conventional locations in the order of their categories; every probe but
\* the last failed; when the last succeeded its location was returned and
\* fetched, and otherwise every location was probed and nothing was fetched.
ProbedInOrder(slot) ==
    /\ Len(Probes(slot)) >= 1
    /\ SubSeq(SlotLog(slot), 1, Len(Probes(slot))) = Probes(slot)
    /\ \A i \in DOMAIN Probes(slot) :
          /\ Category(Probes(slot)[i].url) \in 1..4
          /\ \A j \in DOMAIN Probes(slot) :
                i < j => /\ Category(Probes(slot)[i].url) <= Category(Probes(slot)[j].url)
                         /\ Probes(slot)[i].url # Probes(slot)[j].url
                         /\ ~Answers200(Probes(slot)[i].url)
    /\ IF Answers200(Probes(slot)[Len(Probes(slot))].url)
       THEN SlotLog(slot) =
                Append(Probes(slot),
                       Request(slot, "GET", Probes(slot)[Len(Probes(slot))].url))
       ELSE /\ SlotLog(slot) = Probes(slot)
            /\ Len(Probes(slot)) = Len(AliceCandidates)

\* The symmetric loader, or the public loader, ran on a plain shorthand.
SymmetricFromShortcut ==
    /\ ctor # "new" /\ NetworkAsBefore
    /\ cfg.method = "symmetric"
    /\ ~StrTruthy(cfg.symmetric.key_file)
    /\ PlainShortcut(cfg.symmetric.key_url)

PublicFromShortcut ==
    /\ ctor # "new" /\ NetworkAsBefore
    /\ cfg.method = "asymmetric"
    /\ PlainShortcut(cfg.asymmetric.public_key)

\* C17: for a shorthand reference without explicit gist or repo the
\* candidates are probed one at a time in the order conventional gist names,
\* repository names on main, the same on master, key listing; the first
\* candidate whose probe succeeds is returned and no later one is probed;
\* none is returned if and only if every probe failed.
C17_ProbeOrder ==
    /\ SymmetricFromShortcut => ProbedInOrder("symmetric")
    /\ PublicFromShortcut => ProbedInOrder("public")

\* Resolution passed over the gists and the repositories on main, returned
\* a repository on master and left the key listing, which answers, alone.
C17_Witness ==
    /\ PublicFromShortcut
    /\ Len(Probes("public")) = 5
    /\ Len(SlotLog("public")) = 6
    /\ Answers200(SshKeysUrl(<<"alice">>))
    /\ public_key # None

\* The reference is a shorthand with an explicit gist or repo.
OverrideShortcut(ref) ==
    /\ StrTruthy(ref)
    /\ is_github_shortcut(ref.s)
    /\ ("/gist:" \in Range(ref.s) \/ "/repo:" \in Range(ref.s))

\* The location an explicit gist or repo names.
OverrideUrl(ref) ==
    IF "/gist:" \in Range(ref.s)
    THEN GistUrl(SplitBefore(Tail(ref.s), "/gist:"), SplitAfter(Tail(ref.s), "/gist:"))
    ELSE RepoUrl(SplitBefore(Tail(ref.s), "/repo:"), SplitAfter(Tail(ref.s), "/repo:"))

PublicFromOverride ==
    /\ ctor # "new" /\ NetworkAsBefore
    /\ cfg.method = "asymmetric"
    /\ OverrideShortcut(cfg.asymmetric.public_key)

\* C18: for a shorthand reference with an explicit gist or repo, resolution
\* asks the override's location first; when that does not answer with
\* success it goes on to the conventional gist names, repository names and
\* key listing, and it yields no key location only if all of them fail.
C18_OverrideThenFallback ==
    PublicFromOverride =>
        /\ SlotLog("public") # <<>>
        /\ SlotLog("public")[1].url = OverrideUrl(cfg.asymmetric.public_key)
        /\ (\E i \in DOMAIN AliceCandidates : Answers200(AliceCandidates[i]))
              => \E i \in DOMAIN SlotLog("public") :
                    /\ SlotLog("public")[i].verb = "GET"
                    /\ Answers200(SlotLog("public")[i].url)

\* The place among the writes of operation i at which path p was written,
\* 0 when it was not.
WrittenAt(i, p) ==
    IF WroteTo(i, p)
    THEN CHOOSE k \in DOMAIN hist[i].wr :
            hist[i].wr[k].op = "write" /\ hist[i].wr[k].path = p
    ELSE 0

MetadataOf(i) == Append(hist[i].dst, METADATA_NAME)

\* The output of the source file rel of operation i.
EncOutput(i, rel) == Join(hist[i].dst, WithEncSuffix(rel))

\* C19: encrypt_directory writes the metadata file only after every file of
\* the walk has been encrypted, and writes nothing after it; when a file
\* fails it does not write the metadata file.
C19_MetadataLast ==
    \A i \in DOMAIN hist :
        hist[i].op = "encrypt_directory" =>
            /\ WroteTo(i, MetadataOf(i)) =>
                  /\ WrittenAt(i, MetadataOf(i)) = Len(hist[i].wr)
                  /\ hist[i].outcome = "ok"
                  /\ \A rel \in FilesUnder(hist[i].pre, hist[i].src) :
                        /\ WroteTo(i, EncOutput(i, rel))
                        /\ WrittenAt(i, EncOutput(i, rel)) < WrittenAt(i, MetadataOf(i))
            /\ hist[i].outcome = "failed" => ~WroteTo(i, MetadataOf(i))
            /\ hist[i].outcome = "ok" => WroteTo(i, MetadataOf(i))

\* One encrypt_directory wrote an output, failed at the next file and saved
\* no metadata; the next encrypted a file and saved the metadata after it.
C19_Witness ==
    /\ Len(hist) = 2
    /\ \A i \in 1..2 : hist[i].op = "encrypt_directory"
    /\ hist[1].outcome = "failed"
    /\ \E k \in DOMAIN hist[1].wr : hist[1].wr[k].op = "write"
    /\ hist[2].outcome = "ok"
    /\ FilesUnder(hist[2].pre, hist[2].src) # {}
    /\ WrittenAt(2, MetadataOf(2)) >= 2

\* The files operation i wrote, in order.
FileWrites(i) == SelectSeq(hist[i].wr, LAMBDA w : w.op = "write")

DirectoryOp(i) == hist[i].op \in {"encrypt_directory", "decrypt_directory"}

\* The files of a walk that operation i has to process, in the walk's order,
\* and the output of each.
ToProcess(i, order) ==
    IF hist[i].op = "encrypt_directory" THEN order
    ELSE SelectSeq(order, LAMBDA rel :
             Last(rel) # METADATA_NAME /\ EndsWithEnc(Last(rel)))

OutputOf(i, rel) ==
    IF hist[i].op = "encrypt_directory" THEN Join(hist[i].dst, WithEncSuffix(rel))
    ELSE Join(hist[i].dst, DropLast4(rel))

\* Operation i left a file of its walk without output.
FileFailed(i) ==
    /\ DirectoryOp(i)
    /\ \E rel \in FilesUnder(hist[i].pre, hist[i].src) :
          /\ <<rel>> = ToProcess(i, <<rel>>)
          /\ ~WroteTo(i, OutputOf(i, rel))

\* Operation i wrote the outputs of the first files of the walk, once each
\* and in the walk's order, and stopped before the walk's end.
StoppedInWalk(i, order) ==
    /\ Len(FileWrites(i)) < Len(ToProcess(i, order))
    /\ \A k \in DOMAIN FileWrites(i) :
          FileWrites(i)[k].path = OutputOf(i, ToProcess(i, order)[k])

\* C20: when a file fails during encrypt_directory or decrypt_directory the
\* operation returns failure, has processed the files before the failed one
\* and none after it, each once, and leaves on disk the directories and the
\* output files it wrote.
C20_AbortKeepsPartialOutput ==
    \A i \in DOMAIN hist :
        FileFailed(i) =>
            /\ hist[i].outcome = "failed"
            /\ \E order \in WalkOrders(hist[i].pre, hist[i].src) : StoppedInWalk(i, order)
            /\ \A k \in DOMAIN hist[i].wr :
                  IF hist[i].wr[k].op = "write"
                  THEN IsFile(PostFs(i), hist[i].wr[k].path)
                  ELSE IsDir(PostFs(i), hist[i].wr[k].path)

\* encrypt_directory wrote the output of one file and failed at the next,
\* and the output is still there; decrypt_directory then failed at a file.
C20_Witness ==
    /\ Len(hist) = 2
    /\ hist[1].op = "encrypt_directory" /\ FileFailed(1)
    /\ Len(FileWrites(1)) = 1
    /\ IsFile(fs, FileWrites(1)[1].path)
    /\ hist[2].op = "decrypt_directory" /\ FileFailed(2)

\* Operation i encrypted a directory and returned success.
EncryptedOk(i) ==
    /\ hist[i].op \in {"encrypt_directory", "encrypt_backup"}
    /\ hist[i].outcome = "ok"

\* The destination of a successful encryption.
EncDest(i) == IF hist[i].op = "encrypt_directory" THEN hist[i].dst ELSE hist[i].ret

\* The files under the destination after operation i, the root metadata
\* file left out.
OutputFiles(i) == FilesUnder(PostFs(i), EncDest(i)) \ {<<METADATA_NAME>>}

\* C21: after a successful encrypt_directory or encrypt_backup the files
\* under the destination, the root metadata file left out, are exactly the
\* source's relative file paths with ".enc" appended.
C21_OutputsMatchSources ==
    \A i \in DOMAIN hist :
        EncryptedOk(i) =>
            OutputFiles(i) =
                {WithEncSuffix(rel) : rel \in FilesUnder(hist[i].pre, hist[i].src)}

\* C22: decrypt_directory on a source whose root has no metadata file
\* reports no error, decrypts no file and creates or writes nothing.
C22_NoMetadataNoDecrypt ==
    \A i \in DOMAIN hist :
        (/\ hist[i].op = "decrypt_directory"
         /\ ~Exists(hist[i].pre, Append(hist[i].src, METADATA_NAME)))
        => /\ hist[i].outcome = "ok"
           /\ hist[i].wr = <<>>
           /\ PostFs(i) = hist[i].pre

\* C23: encrypt_directory, decrypt_directory, encrypt_backup and
\* decrypt_backup never delete, rename or overwrite a file of the source
\* directory: after any of them returned, every file that was under the
\* source is still there with its content, and was not written.
C23_SourceUntouched ==
    \A i \in DOMAIN hist :
        hist[i].op \in {"encrypt_directory", "decrypt_directory",
                        "encrypt_backup", "decrypt_backup"} =>
            \A rel \in FilesUnder(hist[i].pre, hist[i].src) :
                /\ IsFile(PostFs(i), hist[i].src \o rel)
                /\ PostFs(i)[hist[i].src \o rel] = hist[i].pre[hist[i].src \o rel]
                /\ ~WroteTo(i, hist[i].src \o rel)

\* The Manager was configured with a pair of generate_keypair.
GeneratedPairConfigured == cfg \in GeneratedPairConfigs

\* C24: for each algorithm of generate_keypair the PEM pair passes the
\* marker validation and loads into the key slots, and the asymmetric
\* Manager that holds it encrypts a file and decrypts it again.
C24_GeneratedPairWorks ==
    GeneratedPairConfigured =>
        /\ \A a \in Algorithms :
              /\ validate_key_format(generate_keypair(a, "gen")[1], "public")
              /\ validate_key_format(generate_keypair(a, "gen")[2], "private")
        /\ Truthy(public_key) /\ Truthy(private_key)
        /\ \A i \in DOMAIN hist :
              /\ (hist[i].op = "encrypt_file" /\ hist[i].src = PlainFile)
                    => hist[i].outcome = "ok"
              /\ EncryptThenDecrypt(i) =>
                    /\ hist[i].outcome = "ok"
                    /\ IsFile(PostFs(i), OutFile)
                    /\ PostFs(i)[OutFile].data = hist[i - 1].pre[PlainFile].data

\* The directories below source, as paths relative to it.
DirsUnder(f, source) ==
    {SubSeq(p, Len(source) + 1, Len(p)) :
        p \in {q \in DOMAIN f : IsProperPrefix(source, q) /\ f[q].kind = "dir"}}

\* The destination of a directory operation.
MirrorDest(i) == hist[i].dst

\* C25: after a successful encrypt_directory or decrypt_directory every
\* subdirectory of the source, one without a regular file included, exists
\* at the same relative path under the destination.
C25_DirectoriesMirrored ==
    \A i \in DOMAIN hist :
        (DirectoryOp(i) /\ hist[i].outcome = "ok") =>
            \A d \in DirsUnder(hist[i].pre, hist[i].src) :
                IsDir(PostFs(i), MirrorDest(i) \o d)

\* The length the first four bytes of a file spell.
SpelledLength(d) == U32(First4(d))

\* The file begins with a plausible length and a key that the loaded private
\* key unwraps.
PrefixOpens(d) ==
    /\ DataLen(d) >= LEN_HDR
    /\ 0 < SpelledLength(d) /\ SpelledLength(d) < MAX_KEY_LENGTH
    /\ DataLen(d) >= LEN_HDR + SpelledLength(d) + IV_LEN
    /\ RsaOaepDecrypt(private_key, KeySlice(d, SpelledLength(d))).ok

\* The Manager as it would be without its private key.
WithoutPrivateKey == Manager(cfg.method, symmetric_key, public_key, None)

\* decrypt_file ran, with a private key loaded, on a file whose prefix does
\* not open.
FellBack(i) ==
    /\ hist[i].op = "decrypt_file"
    /\ cfg.method \in {"asymmetric", "both"} /\ Truthy(private_key)
    /\ ~PrefixOpens(hist[i].pre[hist[i].src].data)

\* encrypt_file wrote a file under the symmetric key of a Manager in both
\* mode that holds a private key too, and decrypt_file read it next.
SymmetricFileInBoth(i) ==
    /\ cfg.method = "both" /\ Truthy(symmetric_key) /\ Truthy(private_key)
    /\ EncryptThenDecrypt(i)
    /\ hist[i - 1].outcome = "ok"

\* C26: with a private key loaded, a file whose length prefix is
\* implausible or whose wrapped key does not open is decrypted exactly as
\* by a Manager without private key: nonce at offset 0, symmetric key.  So
\* in both mode every file encrypted under the symmetric key decrypts,
\* whatever its first four bytes are.
C26_FallbackToSymmetric ==
    \A i \in DOMAIN hist :
        /\ FellBack(i) =>
              /\ hist[i].outcome =
                    Outcome(decrypt_file(St(hist[i].pre, <<>>), WithoutPrivateKey,
                                         hist[i].src, hist[i].dst, None).ok)
              /\ PostFs(i) =
                    decrypt_file(St(hist[i].pre, <<>>), WithoutPrivateKey,
                                 hist[i].src, hist[i].dst, None).st.fs
        /\ SymmetricFileInBoth(i) =>
              /\ hist[i].outcome = "ok"
              /\ PostFs(i)[OutFile].data = hist[i - 1].pre[PlainFile].data

\* In both mode a file whose nonce begins with the bytes of the number 1
\* was decrypted: the prefix was plausible and the unwrap failed.
C26_Witness ==
    /\ Len(hist) = 2
    /\ SymmetricFileInBoth(2) /\ FellBack(2)
    /\ SpelledLength(hist[2].pre[EncFile].data) = 1
    /\ DataLen(hist[2].pre[EncFile].data) >= LEN_HDR + 1 + IV_LEN
    /\ hist[2].outcome = "ok"

\* encrypt_file, called without a key, wrote its output.
EncryptedFileOk(i) == hist[i].op = "encrypt_file" /\ hist[i].outcome = "ok"

\* What operation i wrote to its destination.
Output(i) == PostFs(i)[hist[i].dst].data

UsesSymmetricKey == cfg.method \in {"symmetric", "both"} /\ Truthy(symmetric_key)

UsesSessionKey ==
    ~UsesSymmetricKey /\ cfg.method \in {"asymmetric", "both"} /\ Truthy(public_key)

\* The output is nonce, ciphertext and tag under the symmetric key.
PlainLayout(d) ==
    /\ d.pre = <<>> /\ d.wk = None
    /\ d.body.key = symmetric_key

\* The output begins with the 4-byte big-endian length of a fresh 32-byte
\* key wrapped under the public key, and is encrypted under that key.
PrefixedLayout(d) ==
    /\ d.wk # None
    /\ d.pre = ToBytes4(d.wk.len) /\ U32(d.pre) = d.wk.len
    /\ d.wk.pair = public_key.pair /\ d.wk.key = d.body.key
    /\ d.body.key.b \in SessionKeys /\ Len(d.body.key.b) = KEY_LEN

\* C27: encrypt_file without an explicit key uses the loaded symmetric key
\* in symmetric or both mode, and otherwise, in asymmetric or both mode with
\* a public key, a fresh 32-byte session key; the output carries length and
\* wrapped key before the nonce exactly when a session key was used.
C27_KeyChoiceAndPrefix ==
    \A i \in DOMAIN hist :
        EncryptedFileOk(i) =>
            /\ UsesSymmetricKey \/ UsesSessionKey
            /\ UsesSymmetricKey => PlainLayout(Output(i))
            /\ UsesSessionKey => PrefixedLayout(Output(i))
            /\ Output(i).body.iv = Output(i).iv

\* A Manager in both mode that holds both a symmetric and a public key
\* wrote a file without prefix.
C27_Witness ==
    /\ Len(hist) = 1
    /\ EncryptedFileOk(1)
    /\ cfg.method = "both" /\ Truthy(symmetric_key) /\ Truthy(public_key)
    /\ PlainLayout(Output(1))

\* A Manager in both mode whose symmetric slot is empty wrote a file with
\* the wrapped session key in front.
SessionKeyFileWritten ==
    /\ Len(hist) = 1
    /\ EncryptedFileOk(1)
    /\ cfg.method = "both" /\ ~Truthy(symmetric_key)
    /\ PrefixedLayout(Output(1))

\* The file is as encrypt_file wrote it, and the Manager holds the key that
\* opens it.
Authentic(d) ==
    /\ d.t = "enc" /\ ~IsTampered(d)
    /\ \/ d.wk = None /\ d.body.key = symmetric_key
                      /\ cfg.method \in {"symmetric", "both"}
       \/ d.wk # None /\ Truthy(private_key) /\ d.wk.pair = private_key.pair
                      /\ cfg.method \in {"asymmetric", "both"}

\* C28: decrypt_file creates or writes its destination only after the
\* authenticated decryption of the whole input succeeded; when it returns
\* failure the destination is neither created nor modified.
C28_NoOutputOnFailure ==
    \A i \in DOMAIN hist :
        hist[i].op = "decrypt_file" =>
            /\ hist[i].outcome = "failed" =>
                  /\ ~WroteTo(i, hist[i].dst)
                  /\ Exists(PostFs(i), hist[i].dst) = Exists(hist[i].pre, hist[i].dst)
                  /\ Exists(hist[i].pre, hist[i].dst) =>
                        PostFs(i)[hist[i].dst] = hist[i].pre[hist[i].dst]
            /\ WroteTo(i, hist[i].dst) =>
                  /\ hist[i].outcome = "ok"
                  /\ Authentic(hist[i].pre[hist[i].src].data)
                  /\ PostFs(i)[hist[i].dst].data = hist[i].pre[hist[i].src].data.body.pt

\* decrypt_file failed on a file of which one bit had changed, and the
\* output of an earlier run is still at the destination.
C28_Witness ==
    /\ Len(hist) = 3
    /\ TamperedRun(3)
    /\ hist[3].outcome = "failed" /\ hist[3].dst = OutFile
    /\ IsFile(hist[3].pre, OutFile)
    /\ fs[OutFile].data = OldOutput

\* The i-th operation was a fetch of an https:// URL that answered with
\* content.
LiveFetchAnswered(i) ==
    /\ hist[i].op = "fetch_key_from_url"
    /\ StartsWith(hist[i].src, "https://")
    /\ Truthy(hist[i].ret.live)

\* C29: when the live fetch of an https:// URL answers with content, the
\* fetch returns the fetched bytes whether or not the cache could be
\* written: whether the cache directory cannot be created, the file cannot
\* be written or its permissions cannot be set.
C29_CacheWriteOpportunistic ==
    \A i \in DOMAIN hist :
        LiveFetchAnswered(i) =>
            /\ hist[i].outcome = "ok"
            /\ hist[i].ret.data = hist[i].ret.live

\* encrypt_backup(d) succeeded and decrypt_backup of the path it returned
\* succeeded next.
BackupRoundTrip(i) ==
    /\ i >= 2
    /\ hist[i - 1].op = "encrypt_backup" /\ hist[i - 1].outcome = "ok"
    /\ hist[i].op = "decrypt_backup" /\ hist[i].outcome = "ok"
    /\ hist[i].src = hist[i - 1].ret

\* C30: for every backup directory name, when both calls succeed,
\* decrypt_backup(encrypt_backup(d)) returns d.
C30_BackupPathRoundTrip ==
    \A i \in DOMAIN hist : BackupRoundTrip(i) => hist[i].ret = hist[i - 1].src

(***************************************************************************)
(* SpecCache: the key cache file of one URL under concurrent processes,    *)
(* step by step.  A writer is a process inside _cache_key with the bytes   *)
(* it fetched; a reader is a process inside _load_cached_key.  Every       *)
(* system call of the two methods is one step:                             *)
(*   _cache_key:        mkdir, open (which truncates), write, chmod        *)
(*   _load_cached_key:  exists, read_bytes.                                *)
(***************************************************************************)
NProcs == 3         \* concurrent processes

CacheUrl == HttpsSymUrl

\* What the writers fetched: keys of 32 and of 64 bytes.
FetchedKeys == {RawKey(KEY_LEN, 1), RawKey(LONG_KEY_LEN, 2)}

\* The entry an earlier fetch left.
EarlierKey == RawKey(KEY_LEN, 4)

Writer(data) == [kind |-> "writer", pc |-> "mkdir", data |-> data, got |-> None]

Reader == [kind |-> "reader", pc |-> "exists", data |-> None, got |-> None]

EmptyFile == RawKey(0, 0)

\* write() at offset 0 of a file that holds old: the new bytes, then what
\* old holds beyond them.
Overwrite(old, new) ==
    KeyData(new.b \o SubSeq(old.b, Len(new.b) + 1, Len(old.b)), {}, None, None, None)

cacheFrame == <<cfg, ctor, symmetric_key, public_key, private_key, disk, net,
                cacheFault, netLog, cacheReads, fs, hist>>

At(p, kind, pc) == procs[p].kind = kind /\ procs[p].pc = pc

Goto(p, pc) == procs' = [procs EXCEPT ![p].pc = pc]

\* cache_dir.mkdir(parents=True, exist_ok=True)
CacheMkdir(p) ==
    /\ At(p, "writer", "mkdir")
    /\ Goto(p, "open")
    /\ UNCHANGED cache /\ UNCHANGED cacheFrame

\* open(cache_file, 'wb') inside write_bytes: the file is created with the
\* default mode when it is not there, and is cut to length 0.
CacheOpen(p) ==
    /\ At(p, "writer", "open")
    /\ cache' = CachePut(cache, UrlHash(CacheUrl),
                         [data |-> EmptyFile,
                          mode |-> ModeBefore(cache, UrlHash(CacheUrl))])
    /\ Goto(p, "write")
    /\ UNCHANGED cacheFrame

\* write(key_data) inside write_bytes, at the writer's own offset 0.
CacheWrite(p) ==
    /\ At(p, "writer", "write")
    /\ cache' = [cache EXCEPT ![UrlHash(CacheUrl)].data =
                     Overwrite(@, procs[p].data)]
    /\ Goto(p, "chmod")
    /\ UNCHANGED cacheFrame

\* cache_file.chmod(0o600)
CacheChmod(p) ==
    /\ At(p, "writer", "chmod")
    /\ cache' = [cache EXCEPT ![UrlHash(CacheUrl)].mode = "0600"]
    /\ Goto(p, "done")
    /\ UNCHANGED cacheFrame

\* cache_file.exists()
CacheExists(p) ==
    /\ At(p, "reader", "exists")
    /\ Goto(p, IF UrlHash(CacheUrl) \in DOMAIN cache THEN "read" ELSE "done")
    /\ UNCHANGED cache /\ UNCHANGED cacheFrame

\* cache_file.read_bytes()
CacheRead(p) ==
    /\ At(p, "reader", "read")
    /\ procs' = [procs EXCEPT ![p].pc = "done",
                              ![p].got = cache[UrlHash(CacheUrl)].data]
    /\ UNCHANGED cache /\ UNCHANGED cacheFrame

InitCache ==
    /\ cfg = Config("symmetric", None, Str(CacheUrl), None, None, None, None)
    /\ ctor = "new"
    /\ symmetric_key = None /\ public_key = None /\ private_key = None
    /\ disk = KeyDisk
    /\ net = Online
    /\ cache \in {<<>>, UrlHash(CacheUrl) :> CacheEntry(EarlierKey)}
    /\ cacheFault = "none"
    /\ netLog = <<>> /\ cacheReads = <<>>
    /\ fs = NoFiles
    /\ hist = <<>>
    /\ procs \in [1..NProcs -> {Writer(d) : d \in FetchedKeys} \union {Reader}]

NextCache ==
    \/ \E p \in 1..NProcs : CacheMkdir(p)
    \/ \E p \in 1..NProcs : CacheOpen(p)
    \/ \E p \in 1..NProcs : CacheWrite(p)
    \/ \E p \in 1..NProcs : CacheChmod(p)
    \/ \E p \in 1..NProcs : CacheExists(p)
    \/ \E p \in 1..NProcs : CacheRead(p)

SpecCache == InitCache /\ [][NextCache]_vars

\* C15: in every reachable state, between the steps of a cache write and
\* under concurrent processes included, a cache file that holds key bytes
\* has owner-only (0600) permissions.
C15_CacheOwnerOnly ==
    \A h \in DOMAIN cache : Truthy(cache[h].data) => cache[h].mode = "0600"

\* The contents successful fetches of the URL produced.
CompleteKeys == FetchedKeys \union {EarlierKey}

\* C16: under any interleaving of cache writers and readers of one URL, a
\* reader that finds the cache file obtains the complete bytes of some
\* earlier successful fetch, never an empty, truncated or mixed content.
C16_ReaderGetsCompleteKey ==
    \A p \in DOMAIN procs :
        (procs[p].kind = "reader" /\ procs[p].pc = "done" /\ procs[p].got # None)
        => procs[p].got \in CompleteKeys

====
